---- MODULE Spec2Model ----
(***************************************************************************)
(* Model of the LLM-response normalisation and retry pipeline of the       *)
(* StudyBuddy MCP server: GeminiClient.generate_content with its helpers   *)
(* _clean_json_response, _fix_json_issues and _try_partial_json,           *)
(* OpenAIClient.generate_content, and validate_json_response of the        *)
(* FastMCP server.                                                         *)
(*                                                                         *)
(* A text is a sequence of characters; a character is a one-character      *)
(* string, except the backtick and the four typographic quotes, which are  *)
(* written by name.  The backslash is not a character of the model, so     *)
(* JSON strings carry no escape sequences.                                 *)
(***************************************************************************)
EXTENDS Integers, Sequences, FiniteSets, TLC

\* ------------------------------------------------------------------------
\* Characters
\* ------------------------------------------------------------------------
NL == "\n"
SP == " "
DQ == "\""
SQ == "'"
BT == "BACKTICK"
LDQ == "U+201C"
RDQ == "U+201D"
LSQ == "U+2018"
RSQ == "U+2019"

\* The characters Python's str.strip() and the regex class \s treat as
\* whitespace, among the characters of the model.  json's own whitespace
\* (space, \t, \n, \r) agrees with it on these characters.
WS == {SP, NL}

Fence == <<BT, BT, BT>>
JsonTag == <<"j", "s", "o", "n">>
FenceJson == Fence \o JsonTag

\* ------------------------------------------------------------------------
\* Text helpers (Python str / re primitives)
\* ------------------------------------------------------------------------
Max(S) == CHOOSE m \in S : \A k \in S : k <= m

\* s[i:i+len(w)] == w, with i a 1-based index
HasAt(t, i, w) ==
    /\ i >= 1
    /\ i + Len(w) - 1 <= Len(t)
    /\ \A k \in 1..Len(w) : t[i + k - 1] = w[k]

\* the text with the characters at the indices in R deleted
RemoveAt(t, R) ==
    LET pairs == [i \in 1..Len(t) |-> <<i, t[i]>>]
        Keep(p) == p[1] \notin R
        kept == SelectSeq(pairs, Keep)
    IN  [j \in 1..Len(kept) |-> kept[j][2]]

\* last index of the maximal run of whitespace that starts at p (p - 1 when
\* the run is empty): where a greedy \s* stops
RunEnd(t, p) ==
    IF p > Len(t) \/ t[p] \notin WS THEN p - 1
    ELSE CHOOSE r \in p..Len(t) :
            /\ \A k \in p..r : t[k] \in WS
            /\ (r = Len(t) \/ t[r + 1] \notin WS)

\* str.strip()
Strip(t) ==
    IF \A i \in 1..Len(t) : t[i] \in WS THEN <<>>
    ELSE LET lo == CHOOSE i \in 1..Len(t) :
                      t[i] \notin WS /\ \A j \in 1..(i - 1) : t[j] \in WS
             hi == CHOOSE i \in 1..Len(t) :
                      t[i] \notin WS /\ \A j \in (i + 1)..Len(t) : t[j] \in WS
         IN  SubSeq(t, lo, hi)

\* str.replace(old, new) for one-character old and new
Replace(t, old, new) == [i \in 1..Len(t) |-> IF t[i] = old THEN new ELSE t[i]]

\* str.count(c)
Count(t, c) == Cardinality({i \in 1..Len(t) : t[i] = c})

\* s[:n]
Take(t, n) == SubSeq(t, 1, IF Len(t) < n THEN Len(t) ELSE n)

\* ------------------------------------------------------------------------
\* GeminiClient._clean_json_response
\* ------------------------------------------------------------------------
\* ^ under re.MULTILINE: the start of the text or just after a newline
LineStart(t, i) == i = 1 \/ t[i - 1] = NL

\* OpenFenceEnd for the pattern  ^```json\s*\n : the json tag is not optional
OpenFenceEndTagRequired(t, i) ==
    IF ~(LineStart(t, i) /\ HasAt(t, i, FenceJson)) THEN 0
    ELSE LET p == i + 7
             r == RunEnd(t, p)
             nls == {m \in p..r : t[m] = NL}
         IN  IF nls = {} THEN 0 ELSE Max(nls)

\* Last index of the match of  ^```(?:json)?\s*\n  that starts at i, or 0
\* when there is none.  The greedy \s* is backtracked to the last newline of
\* the whitespace run that follows the (optional) tag.
OpenFenceEnd(t, i) ==
    IF ~(LineStart(t, i) /\ HasAt(t, i, Fence)) THEN 0
    ELSE LET p == IF HasAt(t, i + 3, JsonTag) THEN i + 7 ELSE i + 3
             r == RunEnd(t, p)
             nls == {m \in p..r : t[m] = NL}
         IN  IF nls = {} THEN 0 ELSE Max(nls)

\* re.sub(r'^```(?:json)?\s*\n', '', text, flags=re.MULTILINE)
StripOpenFences(t) ==
    LET starts == {i \in 1..Len(t) : OpenFenceEnd(t, i) # 0}
    IN  RemoveAt(t, {k \in 1..Len(t) :
                        \E i \in starts : i <= k /\ k <= OpenFenceEnd(t, i)})

\* Last index of the match of  \n```\s*$  that starts at i, or 0 when there
\* is none.  $ under re.MULTILINE matches at the end of the text and just
\* before a newline; the greedy \s* runs to the end of the text, or is
\* backtracked to just before the last newline of the whitespace run.
CloseFenceEnd(t, i) ==
    IF ~(i <= Len(t) /\ t[i] = NL /\ HasAt(t, i + 1, Fence)) THEN 0
    ELSE LET p == i + 4
             r == RunEnd(t, p)
             nls == {m \in p..r : t[m] = NL}
         IN  IF r = Len(t) THEN r
             ELSE IF nls = {} THEN 0
             ELSE Max(nls) - 1

\* re.sub(r'\n```\s*$', '', text, flags=re.MULTILINE)
StripCloseFences(t) ==
    LET starts == {i \in 1..Len(t) : CloseFenceEnd(t, i) # 0}
    IN  RemoveAt(t, {k \in 1..Len(t) :
                        \E i \in starts : i <= k /\ k <= CloseFenceEnd(t, i)})

CleanJsonResponse(text) == Strip(StripCloseFences(StripOpenFences(text)))

\* ------------------------------------------------------------------------
\* GeminiClient._fix_json_issues
\* ------------------------------------------------------------------------
\* The two replace() lines of the source: every argument is the ASCII
\* quote character (bytes 0x22 and 0x27).
ReplaceQuotes(text) ==
    LET t1 == Replace(Replace(text, DQ, DQ), DQ, DQ)
    IN  Replace(Replace(t1, SQ, SQ), SQ, SQ)

\* TrailingComma for the pattern  ,([}\]]) : no whitespace before the closer
TrailingCommaNoWs(t, i) ==
    /\ t[i] = ","
    /\ i + 1 <= Len(t) /\ t[i + 1] \in {"}", "]"}

\* the comma at i starts a match of  ,(\s*[}\]])
TrailingComma(t, i) ==
    /\ t[i] = ","
    /\ LET q == RunEnd(t, i + 1) + 1
       IN  q <= Len(t) /\ t[q] \in {"}", "]"}

\* RemoveTrailingCommas with count=1: only the first match is replaced
RemoveTrailingCommasFirstOnly(t) ==
    RemoveAt(t, {i \in 1..Len(t) :
                    TrailingComma(t, i) /\ \A j \in 1..(i - 1) : ~TrailingComma(t, j)})

\* re.sub(r',(\s*[}\]])', r'\1', text)
RemoveTrailingCommas(t) == RemoveAt(t, {i \in 1..Len(t) : TrailingComma(t, i)})

FixJsonIssues(text) == RemoveTrailingCommas(ReplaceQuotes(text))

\* ------------------------------------------------------------------------
\* json.loads (CPython json.decoder / json.scanner), strict mode
\* ------------------------------------------------------------------------
\* A parsed value is [kind, body]: "str" with its characters, "num" with its
\* lexeme, "lit" with the literal's name, "arr" with its items, "obj" with
\* its <<key, value>> pairs in insertion order (a repeated key keeps its
\* place and takes the last value, as dict(pairs) does).
Digits == {"0", "1", "2", "3", "4", "5", "6", "7", "8", "9"}
NoValue == [kind |-> "none", body |-> <<>>]
StrVal(cs) == [kind |-> "str", body |-> cs]
NumVal(cs) == [kind |-> "num", body |-> cs]
LitVal(cs) == [kind |-> "lit", body |-> cs]
ArrVal(items) == [kind |-> "arr", body |-> items]
ObjVal(pairs) == [kind |-> "obj", body |-> pairs]

\* A parse step either succeeds with a value and the index of the next
\* unread character, or fails with JSONDecodeError(msg, doc, pos); pos is
\* the 0-based offset Python reports.
Parsed(v, e) == [ok |-> TRUE, val |-> v, end |-> e, msg |-> "", pos |-> 0]
DecodeError(m, i) == [ok |-> FALSE, val |-> NoValue, end |-> 0, msg |-> m, pos |-> i - 1]

\* WHITESPACE.match(s, i).end()
SkipWs(t, i) == RunEnd(t, i) + 1

CharAt(t, i) == IF i >= 1 /\ i <= Len(t) THEN t[i] ELSE ""

\* scanstring(s, end, strict=True): i is the index after the opening quote
ScanString(t, i) ==
    LET stops == {j \in i..Len(t) : t[j] \in {DQ, NL}}
    IN  IF stops = {} THEN DecodeError("Unterminated string starting at", i - 1)
        ELSE LET j == CHOOSE m \in stops : \A k \in stops : m <= k
             IN  IF t[j] = DQ THEN Parsed(StrVal(SubSeq(t, i, j - 1)), j + 1)
                 ELSE DecodeError("Invalid control character at", j)

DigitRunEnd(t, p) ==
    IF CharAt(t, p) \notin Digits THEN p - 1
    ELSE CHOOSE r \in p..Len(t) :
            /\ \A k \in p..r : t[k] \in Digits
            /\ CharAt(t, r + 1) \notin Digits

\* Last index of the match of NUMBER_RE
\*   (-?(?:0|[1-9]\d*))(\.\d+)?([eE][-+]?\d+)?
\* at i, or 0 when there is none.
NumberEnd(t, i) ==
    LET s == IF CharAt(t, i) = "-" THEN i + 1 ELSE i
    IN  IF CharAt(t, s) \notin Digits THEN 0
        ELSE LET ie == IF t[s] = "0" THEN s ELSE DigitRunEnd(t, s)
                 fe == IF CharAt(t, ie + 1) = "." /\ CharAt(t, ie + 2) \in Digits
                       THEN DigitRunEnd(t, ie + 2) ELSE ie
                 xs == IF CharAt(t, fe + 2) \in {"-", "+"} THEN fe + 3 ELSE fe + 2
             IN  IF CharAt(t, fe + 1) \in {"e", "E"} /\ CharAt(t, xs) \in Digits
                 THEN DigitRunEnd(t, xs) ELSE fe

LitNull == <<"n", "u", "l", "l">>
LitTrue == <<"t", "r", "u", "e">>
LitFalse == <<"f", "a", "l", "s", "e">>
LitNaN == <<"N", "a", "N">>
LitInfinity == <<"I", "n", "f", "i", "n", "i", "t", "y">>
LitNegInfinity == <<"-">> \o LitInfinity

\* dict(pairs), one pair at a time
PutPair(pairs, key, value) ==
    IF \E j \in 1..Len(pairs) : pairs[j][1] = key
    THEN [j \in 1..Len(pairs) |->
             IF pairs[j][1] = key THEN <<key, value>> ELSE pairs[j]]
    ELSE Append(pairs, <<key, value>>)

RECURSIVE ScanOnce(_, _)
RECURSIVE ObjectPairs(_, _, _)
RECURSIVE ArrayItems(_, _, _)

\* JSONObject's loop, after a pair: n is the index of the next character
\* that is not whitespace
AfterPair(t, acc, n) ==
    IF CharAt(t, n) = "}" THEN Parsed(ObjVal(acc), n + 1)
    ELSE IF CharAt(t, n) # "," THEN DecodeError("Expecting ',' delimiter", n)
    ELSE IF CharAt(t, SkipWs(t, n + 1)) # DQ
    THEN DecodeError("Expecting property name enclosed in double quotes", SkipWs(t, n + 1))
    ELSE ObjectPairs(t, SkipWs(t, n + 1) + 1, acc)

\* ... after the value v of the key
AfterValue(t, pairs, key, v) ==
    IF ~v.ok THEN v
    ELSE AfterPair(t, PutPair(pairs, key, v.val), SkipWs(t, v.end))

\* ... after the key: c is the index where the colon has to be
AfterKey(t, pairs, key, c) ==
    IF CharAt(t, c) # ":" THEN DecodeError("Expecting ':' delimiter", c)
    ELSE AfterValue(t, pairs, key, ScanOnce(t, SkipWs(t, c + 1)))

\* ... after scanning the key string k
WithKey(t, pairs, k) ==
    IF ~k.ok THEN k
    ELSE AfterKey(t, pairs, k.val.body,
                  IF CharAt(t, k.end) = ":" THEN k.end ELSE SkipWs(t, k.end))

\* JSONObject's loop: i is the index after the opening quote of a key
ObjectPairs(t, i, pairs) == WithKey(t, pairs, ScanString(t, i))

\* JSONObject, at the first character n after the brace that is not whitespace
ObjectAt(t, n) ==
    IF CharAt(t, n) = "}" THEN Parsed(ObjVal(<<>>), n + 1)
    ELSE IF CharAt(t, n) # DQ
    THEN DecodeError("Expecting property name enclosed in double quotes", n)
    ELSE ObjectPairs(t, n + 1, <<>>)

\* JSONObject: i is the index after the opening brace
ParseObject(t, i) == ObjectAt(t, IF CharAt(t, i) = DQ THEN i ELSE SkipWs(t, i))

\* JSONArray's loop, after an item: n is the index of the next character
\* that is not whitespace
AfterItem(t, acc, n) ==
    IF CharAt(t, n) = "]" THEN Parsed(ArrVal(acc), n + 1)
    ELSE IF CharAt(t, n) # "," THEN DecodeError("Expecting ',' delimiter", n)
    ELSE ArrayItems(t, SkipWs(t, n + 1), acc)

\* ... after scanning the item v
WithItem(t, items, v) ==
    IF ~v.ok THEN v
    ELSE AfterItem(t, Append(items, v.val), SkipWs(t, v.end))

\* JSONArray's loop: i is the index of the first character of an item
ArrayItems(t, i, items) == WithItem(t, items, ScanOnce(t, i))

\* JSONArray: i is the index after the opening bracket
ParseArray(t, i) ==
    IF CharAt(t, SkipWs(t, i)) = "]" THEN Parsed(ArrVal(<<>>), SkipWs(t, i) + 1)
    ELSE ArrayItems(t, SkipWs(t, i), <<>>)

\* scan_once(string, idx); StopIteration becomes "Expecting value"
ScanOnce(t, i) ==
    IF CharAt(t, i) = DQ THEN ScanString(t, i + 1)
    ELSE IF CharAt(t, i) = "{" THEN ParseObject(t, i + 1)
    ELSE IF CharAt(t, i) = "[" THEN ParseArray(t, i + 1)
    ELSE IF HasAt(t, i, LitNull) THEN Parsed(LitVal(LitNull), i + 4)
    ELSE IF HasAt(t, i, LitTrue) THEN Parsed(LitVal(LitTrue), i + 4)
    ELSE IF HasAt(t, i, LitFalse) THEN Parsed(LitVal(LitFalse), i + 5)
    ELSE IF NumberEnd(t, i) # 0
    THEN Parsed(NumVal(SubSeq(t, i, NumberEnd(t, i))), NumberEnd(t, i) + 1)
    ELSE IF HasAt(t, i, LitNaN) THEN Parsed(LitVal(LitNaN), i + 3)
    ELSE IF HasAt(t, i, LitInfinity) THEN Parsed(LitVal(LitInfinity), i + 8)
    ELSE IF HasAt(t, i, LitNegInfinity) THEN Parsed(LitVal(LitNegInfinity), i + 9)
    ELSE DecodeError("Expecting value", i)

\* JSONDecoder.decode, after raw_decode produced r
Decoded(t, r) ==
    IF ~r.ok THEN r
    ELSE IF SkipWs(t, r.end) # Len(t) + 1 THEN DecodeError("Extra data", SkipWs(t, r.end))
    ELSE r

\* json.loads(s): JSONDecoder.decode
JsonLoads(t) == Decoded(t, ScanOnce(t, SkipWs(t, 1)))

\* bool(value), as tested by "if partial_result:"
Truthy(v) ==
    CASE v.kind \in {"obj", "arr", "str"} -> v.body # <<>>
      [] v.kind = "num" -> \E i \in 1..Len(v.body) :
                              /\ v.body[i] \in Digits \ {"0"}
                              /\ \A j \in 1..i : v.body[j] \notin {"e", "E"}
      [] v.kind = "lit" -> v.body \notin {LitNull, LitFalse}
      [] OTHER -> FALSE

\* the decimal digits of a natural number
RECURSIVE Dec(_)
Dec(n) ==
    LET d == <<"0", "1", "2", "3", "4", "5", "6", "7", "8", "9">>[(n % 10) + 1]
    IN  IF n < 10 THEN <<d>> ELSE Append(Dec(n \div 10), d)

\* str(e) of a JSONDecodeError: "msg: line L column C (char P)"
ErrorText(t, e) ==
    LET before == {i \in 1..e.pos : i <= Len(t) /\ t[i] = NL}
        lineno == Cardinality(before) + 1
        colno == IF before = {} THEN e.pos + 1 ELSE e.pos - (Max(before) - 1)
    IN  <<e.msg, ": line ">> \o Dec(lineno) \o <<" column ">> \o Dec(colno)
            \o <<" (char ">> \o Dec(e.pos) \o <<")">>

\* ------------------------------------------------------------------------
\* The dictionaries the clients return.  Keys are written character by
\* character, like the keys of a parsed document; each fixed message of
\* the program is written as one element of its string.
\* ------------------------------------------------------------------------
ErrorKey == <<"e", "r", "r", "o", "r">>
SuggestionKey == <<"s", "u", "g", "g", "e", "s", "t", "i", "o", "n">>
DetailsKey == <<"d", "e", "t", "a", "i", "l", "s">>
RawResponseKey == <<"r", "a", "w", "_", "r", "e", "s", "p", "o", "n", "s", "e">>

\* key in result (a dict lookup)
HasKey(v, key) == v.kind = "obj" /\ \E j \in 1..Len(v.body) : v.body[j][1] = key
Get(v, key) == v.body[CHOOSE j \in 1..Len(v.body) : v.body[j][1] = key][2]

RawResponseLimit == 500

ErrNoCandidates ==
    ObjVal(<< <<ErrorKey, StrVal(<<"Content blocked by safety filters">>)>>,
              <<SuggestionKey, StrVal(<<"Try rephrasing your query with different wording.">>)>> >>)
ErrSafety ==
    ObjVal(<< <<ErrorKey, StrVal(<<"Response blocked for safety reasons">>)>>,
              <<SuggestionKey, StrVal(<<"Try a different topic or rephrase your question.">>)>> >>)
ErrRecitation ==
    ObjVal(<< <<ErrorKey, StrVal(<<"Response blocked due to recitation concerns">>)>>,
              <<SuggestionKey, StrVal(<<"Try asking in a different way.">>)>> >>)
\* ErrGeminiParse with the whole response_text as raw_response
ErrGeminiParseUntruncated(e, response_text) ==
    ObjVal(<< <<ErrorKey, StrVal(<<"Failed to parse JSON response from Gemini">>)>>,
              <<DetailsKey, StrVal(ErrorText(response_text, e))>>,
              <<RawResponseKey, StrVal(response_text)>>,
              <<SuggestionKey, StrVal(<<"The AI returned invalid JSON. Try rephrasing your query or try again.">>)>> >>)

ErrGeminiParse(e, response_text) ==
    ObjVal(<< <<ErrorKey, StrVal(<<"Failed to parse JSON response from Gemini">>)>>,
              <<DetailsKey, StrVal(ErrorText(response_text, e))>>,
              <<RawResponseKey, StrVal(Take(response_text, RawResponseLimit))>>,
              <<SuggestionKey, StrVal(<<"The AI returned invalid JSON. Try rephrasing your query or try again.">>)>> >>)
ErrGeminiApi(exc) ==
    ObjVal(<< <<ErrorKey, StrVal(<<"Gemini API error: ", exc>>)>>,
              <<SuggestionKey, StrVal(<<"Check your API key and internet connection, or try again.">>)>> >>)
ErrMaxRetries ==
    ObjVal(<< <<ErrorKey, StrVal(<<"Max retries exceeded">>)>>,
              <<SuggestionKey, StrVal(<<"Please try again.">>)>> >>)
ErrOpenAIParse(e, response_text) ==
    ObjVal(<< <<ErrorKey, StrVal(<<"Failed to parse JSON response from OpenAI">>)>>,
              <<DetailsKey, StrVal(ErrorText(response_text, e))>>,
              <<RawResponseKey, StrVal(Take(response_text, RawResponseLimit))>>,
              <<SuggestionKey, StrVal(<<"The AI returned invalid JSON. Try again.">>)>> >>)
ErrOpenAIApi(exc) ==
    ObjVal(<< <<ErrorKey, StrVal(<<"OpenAI API error: ", exc>>)>>,
              <<SuggestionKey, StrVal(<<"Check your API key and internet connection.">>)>> >>)

\* ------------------------------------------------------------------------
\* GeminiClient._try_partial_json
\* ------------------------------------------------------------------------
RECURSIVE Repeat(_, _)
\* w * n
Repeat(w, n) == IF n <= 0 THEN <<>> ELSE w \o Repeat(w, n - 1)

\* ClosureRepair appending the closing brace without the quote
ClosureRepairBraceOnly(text) ==
    IF Count(text, "{") > Count(text, "}")
    THEN text \o Repeat(<<"}">>, Count(text, "{") - Count(text, "}"))
    ELSE text

\* the text handed to the second json.loads
ClosureRepair(text) ==
    IF Count(text, "{") > Count(text, "}")
    THEN text \o Repeat(<<DQ, "}">>, Count(text, "{") - Count(text, "}"))
    ELSE text

\* the parsed value, or None (NoValue) when json.loads raises
TryPartialJson(text) ==
    IF JsonLoads(ClosureRepair(text)).ok THEN JsonLoads(ClosureRepair(text)).val ELSE NoValue

\* ------------------------------------------------------------------------
\* validate_json_response (FastMCP server)
\* ------------------------------------------------------------------------

\* the value json.loads returns, or ValueError("Invalid JSON response from AI")
ValidateJsonResponse(response) ==
    LET c0 == Strip(response)
        c1 == IF HasAt(c0, 1, FenceJson) THEN SubSeq(c0, 8, Len(c0)) ELSE c0
        c2 == IF Len(c1) >= 3 /\ HasAt(c1, Len(c1) - 2, Fence)
              THEN SubSeq(c1, 1, Len(c1) - 3) ELSE c1
        r == JsonLoads(Strip(c2))
    IN  IF r.ok THEN [raises |-> FALSE, val |-> r.val]
        ELSE [raises |-> TRUE, val |-> NoValue]

\* ------------------------------------------------------------------------
\* Bounds and inputs
\* ------------------------------------------------------------------------
MaxRetries == 3
MaxLen == 3
LongLen == 600
MaxSteps == 4

\* every text of at most MaxLen characters over the structural characters
\* of JSON, whitespace, a letter and a digit
ShortAlphabet == {"{", "}", "[", "]", ",", ":", DQ, SP, NL, "a", "1"}
ShortTexts == UNION {[1..n -> ShortAlphabet] : n \in 0..MaxLen}

\* valid documents
DocA1 == <<"{", "\"", "a", "\"", ":", "1", "}">>
DocHello == <<"{", "\"", "a", "\"", ":", " ", "\"", "h", "e", "l", "l", "o", "\"", "}">>
DocNested == <<"{", "\"", "a", "\"", ":", "{", "\"", "b", "\"", ":", "\"", "c", "\"", "}", "}">>
DocCommaInString == <<"{", "\"", "a", "\"", ":", "\"", ",", "}", "\"", "}">>
DocFractions == <<"{", "\"", "t", "o", "p", "i", "c", "\"", ":", " ", "\"", "F", "r", "a", "c", "t", "i", "o", "n", "s", "\"", ",", " ", "\"", "k", "e", "y", "_", "p", "o", "i", "n", "t", "s", "\"", ":", " ", "[", "\"", "a", "\"", ",", " ", "\"", "b", "\"", "]", "}">>
Docs == {DocA1, DocHello, DocNested, DocCommaInString, DocFractions, <<"[", "1", "]">>, <<"[", "]">>, <<"{", "}">>, <<"0">>}

\* documents cut short by the model (max_output_tokens)
Truncations == UNION {{SubSeq(d, 1, n) : n \in 0..Len(d)} : d \in {DocHello, DocNested}}

\* documents with the defects the cleanup is written for
CurlyA1 == <<"{", LDQ, "a", RDQ, ":", SP, "1", "}">>
CurlySingle == <<"[", LSQ, "a", RSQ, "]">>
TrailingA1 == <<"{", "\"", "a", "\"", ":", "1", ",", "}">>
FractionsRaw == <<"{", "\"", "t", "o", "p", "i", "c", "\"", ":", " ", "\"", "F", "r", "a", "c", "t", "i", "o", "n", "s", "\"", ",", " ", "\"", "k", "e", "y", "_", "p", "o", "i", "n", "t", "s", "\"", ":", " ", "[", "\"", "a", "\"", ",", " ", "\"", "b", "\"", "]", ",", " ", "}">>
EndToEnd == FenceJson \o <<NL>> \o FractionsRaw \o <<NL>> \o Fence
CommaBeforeFence == <<"[", "1", ",", NL>> \o Fence \o <<NL, "]">>
TwoTrailing == <<"{", "\"", "a", "\"", ":", "[", "1", ",", "]", ",", "}">>
Defective == {CurlyA1, CurlySingle, TrailingA1, FractionsRaw,
              <<"[", "1", ",", ",", "]">>, <<"[", "1", ",", " ", ",", "]">>, <<",", " ", "]">>,
              <<"{", "\"", "a", "\"", ":", "\"", ",", ",", "}", "\"", "}">>, <<"x">>, <<"{", "\"", "a", "\"", ":", "1", "}", "}">>, <<"{", "\"", "{", "\"", ":", "\"", "a">>,
              TwoTrailing}

\* fences around a body, as models write them
Openings == {<<>>, Fence \o <<NL>>, FenceJson \o <<NL>>, FenceJson \o <<SP, NL, NL>>,
             <<SP>> \o Fence \o <<NL>>, Fence \o <<NL, SP>> \o Fence \o <<NL>>,
             <<"x", NL>> \o Fence \o <<NL>>, FenceJson}
Closings == {<<>>, <<NL>> \o Fence, <<NL>> \o Fence \o <<SP, NL>>, Fence,
             <<NL>> \o Fence \o <<NL, "x">>, <<NL>> \o Fence \o <<NL>> \o Fence}
Bodies == {DocA1, DocCommaInString, TrailingA1, TwoTrailing, FractionsRaw,
           <<"x">>, <<"{", "\"", "a", "\"", ":", " ", "\"", "h", "e", "l", "l", "o">>, <<>>}
Fenced == {o \o b \o c : o \in Openings, b \in Bodies, c \in Closings}

LongText == [i \in 1..LongLen |-> "x"]
Blank == <<SP, SP, SP>>

Texts == ShortTexts \cup Docs \cup Truncations \cup Defective \cup Fenced
            \cup {EndToEnd, CommaBeforeFence, LongText, Blank}

\* What a call of the model can produce: the call raises; or it returns a
\* response with or without candidates, the first candidate's finish_reason
\* (1 STOP, 2 SAFETY, 3 RECITATION), and a text, or no text at all (reading
\* response.text, or stripping a None content, raises).
Response(st, cands, fr, has, t) ==
    [status |-> st, candidates |-> cands, finish_reason |-> fr, has_text |-> has, text |-> t]
NoResponse == Response("none", 0, 0, FALSE, <<>>)
CallRaised == Response("raised", 0, 0, FALSE, <<>>)
Responses ==
    {CallRaised, Response("returned", 0, 0, FALSE, <<>>),
     Response("returned", 1, 1, FALSE, <<>>),
     Response("returned", 1, 2, TRUE, DocA1), Response("returned", 1, 3, TRUE, DocA1)}
        \cup {Response("returned", 1, 1, TRUE, t) : t \in Texts}

\* ------------------------------------------------------------------------
\* State
\* ------------------------------------------------------------------------
VARIABLES
    client,         \* which client's generate_content is running
    max_retries,    \* the max_retries argument
    attempt,        \* the loop variable of "for attempt in range(max_retries)"
    pc,             \* "loop": at the loop header; "call": the model call is
                    \* in progress; "done": generate_content has finished
    calls,          \* number of model calls issued so far
    in_flight,      \* number of model calls issued and not yet answered
    response,       \* the local variable response: what the model call of
                    \* this pass produced (NoResponse while it is running)
    response_text,  \* the local variable response_text of this pass
    result,         \* the value generate_content returned
    returned_by,    \* which return statement produced it
    raised,         \* an exception left generate_content
    text,           \* the text a helper is applied to
    steps           \* the helper applications made on it, in order

\* The StudyBuddy tools (mcp_server/server.py, gradio_app/app_dark.py and
\* studybuddy_mcp_server.py) and their two databases.  A table is the
\* sequence of its rows in rowid order; a row's id is its index.
VARIABLES
    program,             \* which of the three programs is running
    student_id,          \* _student_context.student_id (server.py) or
                         \* current_student_id (app_dark.py); 0 is None
    students,            \* mcp_server/database.py: table students
    explained_topics,    \*   table explained_topics
    practice_problems,   \*   table practice_problems
    quiz_history,        \*   table quiz_history
    user_profiles,       \* studybuddy_mcp_server.py: table user_profiles
    learning_activities, \*   table learning_activities
    quiz_questions,      \*   table quiz_questions
    tool_calls,          \* number of tool calls made so far
    last                 \* the last tool call: its arguments, what the model
                         \* gave, the prompt's question list, what it returned

genVars == <<client, max_retries, attempt, pc, calls, in_flight, response,
             response_text, result, returned_by, raised>>
cleanVars == <<text, steps>>
toolVars == <<program, student_id, students, explained_topics, practice_problems,
              quiz_history, user_profiles, learning_activities, quiz_questions,
              tool_calls, last>>

VARIABLES
    invocations,         \* the generate_content calls under way on the shared
                         \* client, each with its frame of locals
    trainbot             \* TrainBot: the tool call made and what it came to

VARIABLES
    outcomes,            \* call_gemini: what each model call made so far
                         \* came to, in order
    process              \* a process's module-level globals and what was done
                         \* with them

concVars == <<invocations>>
trainVars == <<trainbot>>
procVars == <<outcomes, process>>
extVars == <<toolVars, concVars, trainVars, procVars>>
\* what the StudyBuddy tools leave alone
notToolVars == <<genVars, cleanVars, concVars, trainVars, procVars>>
vars == <<client, max_retries, attempt, pc, calls, in_flight, response,
          response_text, result, returned_by, raised, text, steps, extVars>>

\* no tool of StudyBuddy is in use
NoCall == [tool |-> "none"]
ToolsIdle ==
    /\ program = "none"
    /\ student_id = 0
    /\ students = <<>>
    /\ explained_topics = <<>>
    /\ practice_problems = <<>>
    /\ quiz_history = <<>>
    /\ user_profiles = <<>>
    /\ learning_activities = <<>>
    /\ quiz_questions = <<>>
    /\ tool_calls = 0
    /\ last = NoCall
ProcIdle == outcomes = <<>> /\ process = NoCall
ExtIdle == ToolsIdle /\ invocations = <<>> /\ trainbot = NoCall /\ ProcIdle

\* no generate_content call and no helper run is under way
GenIdle ==
    /\ client = "none"
    /\ max_retries = 0
    /\ attempt = 0
    /\ pc = "done"
    /\ calls = 0
    /\ in_flight = 0
    /\ response = [status |-> "none", candidates |-> 0, finish_reason |-> 0,
                   has_text |-> FALSE, text |-> <<>>]
    /\ response_text = <<>>
    /\ result = [kind |-> "none", body |-> <<>>]
    /\ returned_by = ""
    /\ raised = FALSE
    /\ text = <<>>
    /\ steps = <<>>

\* ------------------------------------------------------------------------
\* GeminiClient.generate_content
\* ------------------------------------------------------------------------
\* How one pass through the loop body ends: a return statement (by names
\* it), continue, or an exception on its way out.
Return(v, by, rt) == [ctl |-> "return", value |-> v, by |-> by, text |-> rt, exc |-> ""]
Continue(rt) == [ctl |-> "continue", value |-> NoValue, by |-> "", text |-> rt, exc |-> ""]
Raise(e, rt) == [ctl |-> "raise", value |-> NoValue, by |-> "", text |-> rt, exc |-> e]

\* Cleanup with the two calls in the other order
CleanupSwapped(t) == CleanJsonResponse(FixJsonIssues(t))

\* lines 101-102: the cleanup of the stripped text
Cleanup(t) == FixJsonIssues(CleanJsonResponse(t))

\* lines 113-123: the last attempt did not parse
GeminiLastAttempt(rt, r, partial_result) ==
    IF Truthy(partial_result) THEN Return(partial_result, "partial", rt)
    ELSE Return(ErrGeminiParse(r, rt), "parse_error", rt)

\* GeminiParse with the strict parse's "return result" moved after the retry
\* test, so that a parsed payload is returned on the final attempt only
GeminiParseKeepsRetrying(rt, r, a, m) ==
    IF a < m - 1 THEN Continue(rt)
    ELSE IF r.ok THEN Return(r.val, "strict", rt)
    ELSE GeminiLastAttempt(rt, r, TryPartialJson(rt))

\* GeminiParse without the retry test: closure repair and the error result
\* on whichever attempt did not parse
GeminiParseRepairsEarly(rt, r, a, m) ==
    IF r.ok THEN Return(r.val, "strict", rt)
    ELSE GeminiLastAttempt(rt, r, TryPartialJson(rt))

\* lines 104-123: r is what json.loads made of the cleaned text rt
GeminiParse(rt, r, a, m) ==
    IF r.ok THEN Return(r.val, "strict", rt)
    ELSE IF a < m - 1 THEN Continue(rt)
    ELSE GeminiLastAttempt(rt, r, TryPartialJson(rt))

\* lines 100-123, from the stripped text on
GeminiNormalize(stripped, a, m) ==
    GeminiParse(Cleanup(stripped), JsonLoads(Cleanup(stripped)), a, m)

\* GeminiTryBody with a test for an empty text before the cleanup, returning
\* an error of its own
GeminiTryBodyEmptyKind(resp, a, m) ==
    IF resp.status = "raised" THEN Raise("model call failed", <<>>)
    ELSE IF resp.candidates = 0 THEN Return(ErrNoCandidates, "no_candidates", <<>>)
    ELSE IF resp.finish_reason = 2 THEN Return(ErrSafety, "safety", <<>>)
    ELSE IF resp.finish_reason = 3 THEN Return(ErrRecitation, "recitation", <<>>)
    ELSE IF ~resp.has_text THEN Raise("response has no text", <<>>)
    ELSE IF Strip(resp.text) = <<>>
    THEN Return(ObjVal(<< <<ErrorKey, StrVal(<<"Empty response from Gemini">>)>> >>),
                "empty", <<>>)
    ELSE GeminiNormalize(Strip(resp.text), a, m)

\* GeminiTryBody with the finish reason tested after the parse: a blocked
\* response with text is parsed, and retried when it does not parse
GeminiTryBodyParsesBlocked(resp, a, m) ==
    IF resp.status = "raised" THEN Raise("model call failed", <<>>)
    ELSE IF resp.candidates = 0 THEN Return(ErrNoCandidates, "no_candidates", <<>>)
    ELSE IF resp.has_text THEN GeminiNormalize(Strip(resp.text), a, m)
    ELSE IF resp.finish_reason = 2 THEN Return(ErrSafety, "safety", <<>>)
    ELSE IF resp.finish_reason = 3 THEN Return(ErrRecitation, "recitation", <<>>)
    ELSE Raise("response has no text", <<>>)

\* The body of the try statement, for the response resp on attempt a of m.
GeminiTryBody(resp, a, m) ==
    IF resp.status = "raised" THEN Raise("model call failed", <<>>)
    ELSE IF resp.candidates = 0 THEN Return(ErrNoCandidates, "no_candidates", <<>>)
    ELSE IF resp.finish_reason = 2 THEN Return(ErrSafety, "safety", <<>>)
    ELSE IF resp.finish_reason = 3 THEN Return(ErrRecitation, "recitation", <<>>)
    ELSE IF ~resp.has_text THEN Raise("response has no text", <<>>)
    ELSE GeminiNormalize(Strip(resp.text), a, m)

\* GeminiExcept re-raising on the final attempt instead of returning
GeminiExceptReraises(o, a, m) ==
    IF o.ctl # "raise" THEN o
    ELSE IF a < m - 1 THEN Continue(o.text)
    ELSE o

\* GeminiExcept without the retry test: the error result on whichever
\* attempt raised
GeminiExceptReturnsAtOnce(o, a, m) ==
    IF o.ctl # "raise" THEN o
    ELSE Return(ErrGeminiApi(o.exc), "api_error", o.text)

\* except Exception as e
GeminiExcept(o, a, m) ==
    IF o.ctl # "raise" THEN o
    ELSE IF a < m - 1 THEN Continue(o.text)
    ELSE Return(ErrGeminiApi(o.exc), "api_error", o.text)

\* what the pass makes of the outcome o
Finish(o) ==
    /\ response_text' = o.text
    /\ CASE o.ctl = "return" ->
              /\ result' = o.value
              /\ returned_by' = o.by
              /\ pc' = "done"
              /\ UNCHANGED <<attempt, raised>>
         [] o.ctl = "continue" ->
              /\ attempt' = attempt + 1
              /\ pc' = "loop"
              /\ UNCHANGED <<result, returned_by, raised>>
         [] OTHER ->
              /\ raised' = TRUE
              /\ pc' = "done"
              /\ UNCHANGED <<attempt, result, returned_by>>

\* the loop takes its next attempt: self.model.generate_content(prompt)
GeminiIssueCall ==
    /\ client = "gemini"
    /\ pc = "loop"
    /\ attempt < max_retries
    /\ pc' = "call"
    /\ calls' = calls + 1
    /\ in_flight' = in_flight + 1
    /\ response' = NoResponse
    /\ response_text' = <<>>
    /\ UNCHANGED <<client, max_retries, attempt, result, returned_by, raised, cleanVars, extVars>>

\* the model call ends and the rest of the loop body runs
GeminiReceive ==
    /\ client = "gemini"
    /\ pc = "call"
    /\ \E resp \in Responses :
          /\ response' = resp
          /\ in_flight' = in_flight - 1
          /\ Finish(GeminiExcept(GeminiTryBody(resp, attempt, max_retries),
                                 attempt, max_retries))
    /\ UNCHANGED <<client, max_retries, calls, cleanVars, extVars>>

\* range(max_retries) is exhausted: the return after the loop
GeminiLoopExhausted ==
    /\ client = "gemini"
    /\ pc = "loop"
    /\ ~(attempt < max_retries)
    /\ result' = ErrMaxRetries
    /\ returned_by' = "max_retries"
    /\ pc' = "done"
    /\ UNCHANGED <<client, max_retries, attempt, calls, in_flight, response,
                   response_text, raised, cleanVars, extVars>>

\* ------------------------------------------------------------------------
\* OpenAIClient.generate_content
\* ------------------------------------------------------------------------
\* lines 58-68: r is what json.loads made of the stripped text rt
OpenAIParse(rt, r) ==
    IF r.ok THEN Return(r.val, "strict", rt)
    ELSE Return(ErrOpenAIParse(r, rt), "parse_error", rt)

OpenAITryBody(resp) ==
    IF resp.status = "raised" THEN Raise("model call failed", <<>>)
    ELSE IF resp.candidates = 0 THEN Raise("list index out of range", <<>>)
    ELSE IF ~resp.has_text THEN Raise("'NoneType' object has no attribute 'strip'", <<>>)
    ELSE OpenAIParse(Strip(resp.text), JsonLoads(Strip(resp.text)))

OpenAIExcept(o) ==
    IF o.ctl # "raise" THEN o
    ELSE Return(ErrOpenAIApi(o.exc), "api_error", o.text)

\* self.client.chat.completions.create(...)
OpenAIIssueCall ==
    /\ client = "openai"
    /\ pc = "loop"
    /\ pc' = "call"
    /\ calls' = calls + 1
    /\ in_flight' = in_flight + 1
    /\ response' = NoResponse
    /\ response_text' = <<>>
    /\ UNCHANGED <<client, max_retries, attempt, result, returned_by, raised, cleanVars, extVars>>

OpenAIReceive ==
    /\ client = "openai"
    /\ pc = "call"
    /\ \E resp \in Responses :
          /\ response' = resp
          /\ in_flight' = in_flight - 1
          /\ Finish(OpenAIExcept(OpenAITryBody(resp)))
    /\ UNCHANGED <<client, max_retries, calls, cleanVars, extVars>>

\* ------------------------------------------------------------------------
\* generate_content, from the call to the return
\* ------------------------------------------------------------------------
Init ==
    /\ client \in {"gemini", "openai"}
    /\ max_retries \in IF client = "gemini" THEN (0 - 1)..MaxRetries ELSE {1}
    /\ attempt = 0
    /\ pc = "loop"
    /\ calls = 0
    /\ in_flight = 0
    /\ response = NoResponse
    /\ response_text = <<>>
    /\ result = NoValue
    /\ returned_by = ""
    /\ raised = FALSE
    /\ text = <<>>
    /\ steps = <<>>
    /\ ExtIdle

Next ==
    \/ GeminiIssueCall
    \/ GeminiReceive
    \/ GeminiLoopExhausted
    \/ OpenAIIssueCall
    \/ OpenAIReceive

Spec == Init /\ [][Next]_vars

\* ------------------------------------------------------------------------
\* The helpers on their own: one applied after another to a text
\* ------------------------------------------------------------------------
Step(op, arg, ret, ok, val) == [op |-> op, arg |-> arg, ret |-> ret, ok |-> ok, val |-> val]
LastOp == IF steps = <<>> THEN "" ELSE steps[Len(steps)].op

\* response.text.strip()
ApplyStrip ==
    /\ steps = <<>>
    /\ text' = Strip(text)
    /\ steps' = Append(steps, Step("strip", text, text', TRUE, NoValue))
    /\ UNCHANGED <<genVars, extVars>>

\* self._clean_json_response(response_text)
ApplyClean ==
    /\ Len(steps) < MaxSteps
    /\ LastOp \in {"", "strip", "fix"}
    /\ text' = CleanJsonResponse(text)
    /\ steps' = Append(steps, Step("clean", text, text', TRUE, NoValue))
    /\ UNCHANGED <<genVars, extVars>>

\* self._fix_json_issues(response_text)
ApplyFix ==
    /\ Len(steps) < MaxSteps
    /\ LastOp \in {"", "clean"}
    /\ text' = FixJsonIssues(text)
    /\ steps' = Append(steps, Step("fix", text, text', TRUE, NoValue))
    /\ UNCHANGED <<genVars, extVars>>

\* json.loads(response_text)
ApplyLoads ==
    /\ Len(steps) < MaxSteps
    /\ LastOp = "fix"
    /\ LET r == JsonLoads(text)
       IN  steps' = Append(steps, Step("loads", text, text, r.ok, r.val))
    /\ UNCHANGED <<text, genVars, extVars>>

\* validate_json_response(response)
ApplyValidate ==
    /\ steps = <<>>
    /\ LET r == ValidateJsonResponse(text)
       IN  steps' = Append(steps, Step("validate", text, text, ~r.raises, r.val))
    /\ UNCHANGED <<text, genVars, extVars>>

InitClean ==
    /\ client = "none"
    /\ max_retries = 0
    /\ attempt = 0
    /\ pc = "done"
    /\ calls = 0
    /\ in_flight = 0
    /\ response = NoResponse
    /\ response_text = <<>>
    /\ result = NoValue
    /\ returned_by = ""
    /\ raised = FALSE
    /\ text \in Texts
    /\ steps = <<>>
    /\ ExtIdle

NextClean ==
    \/ ApplyStrip
    \/ ApplyClean
    \/ ApplyFix
    \/ ApplyLoads
    \/ ApplyValidate

SpecClean == InitClean /\ [][NextClean]_vars

\* ------------------------------------------------------------------------
\* The StudyBuddy tools: values and Python operations they use
\* ------------------------------------------------------------------------
ExplanationKey == <<"e","x","p","l","a","n","a","t","i","o","n">>
ProblemsKey == <<"p","r","o","b","l","e","m","s">>
QuestionsKey == <<"q","u","e","s","t","i","o","n","s">>
QuestionKey == <<"q","u","e","s","t","i","o","n">>
KeyPointsKey == <<"k","e","y","_","p","o","i","n","t","s">>
MetadataKey == <<"m","e","t","a","d","a","t","a">>
ToolKey == <<"t","o","o","l">>
ProblemKey == <<"p","r","o","b","l","e","m">>
TopicKey == <<"t","o","p","i","c">>
MessageKey == <<"m","e","s","s","a","g","e">>

\* t contains sub (str.__contains__)
Contains(t, sub) == \E i \in 1..(Len(t) + 1) : HasAt(t, i, sub)

\* "key in v" is defined for a dict (a key), a list (an item) and a str (a
\* substring); for a number, None, True or False it raises TypeError
Iterable(v) == v.kind \in {"obj", "arr", "str"}
In(v, key) ==
    CASE v.kind = "obj" -> HasKey(v, key)
      [] v.kind = "arr" -> \E i \in 1..Len(v.body) : v.body[i] = StrVal(key)
      [] v.kind = "str" -> Contains(v.body, key)
      [] OTHER -> FALSE

\* v.get(key, default) for a dict v
GetOr(v, key, default) == IF HasKey(v, key) THEN Get(v, key) ELSE default

\* [q["question"] for q in questions]: the texts, or an exception when
\* questions is not a list of dicts that all have the key
HasQuestionTexts(questions) ==
    /\ questions.kind = "arr"
    /\ \A i \in 1..Len(questions.body) : HasKey(questions.body[i], QuestionKey)
QuestionTexts(questions) ==
    [i \in 1..Len(questions.body) |-> Get(questions.body[i], QuestionKey)]

\* previous_questions[-n:]
LastN(qs, n) == IF Len(qs) <= n THEN qs ELSE SubSeq(qs, Len(qs) - n + 1, Len(qs))

\* what a tool call comes to: the exception that left the handler (exc), the
\* row it saved (saved, content), the value it returned (out)
Failed(e) == [exc |-> e, saved |-> FALSE, content |-> NoValue, out |-> NoValue]
Saved(c, o) == [exc |-> "", saved |-> TRUE, content |-> c, out |-> o]
NotSaved(o) == [exc |-> "", saved |-> FALSE, content |-> NoValue, out |-> o]

\* ------------------------------------------------------------------------
\* mcp_server/database.py
\* ------------------------------------------------------------------------
\* the ids of the rows of students with this name, grade and board
StudentRows(tbl, name, grade, board) ==
    {i \in 1..Len(tbl) : tbl[i] = [name |-> name, grade |-> grade, board |-> board]}

\* get_or_create_student: the id returned and the table afterwards
GetOrCreateStudent(tbl, name, grade, board) ==
    IF StudentRows(tbl, name, grade, board) # {}
    THEN [id |-> CHOOSE i \in StudentRows(tbl, name, grade, board) :
                     \A j \in StudentRows(tbl, name, grade, board) : i <= j,
          table |-> tbl]
    ELSE [id |-> Len(tbl) + 1,
          table |-> Append(tbl, [name |-> name, grade |-> grade, board |-> board])]

\* the rows of quiz_history for a student, subject and topic, in rowid order
QuizRows(tbl, sid, subject, topic) ==
    SelectSeq(tbl, LAMBDA r : r.student_id = sid /\ r.subject = subject /\ r.topic = topic)

RECURSIVE Flatten(_)
Flatten(lists) == IF lists = <<>> THEN <<>> ELSE Head(lists) \o Flatten(Tail(lists))

\* get_quiz_history: every question text of every matching row, in order;
\* it raises when a saved list holds an item without "question"
QuizHistoryRaises(tbl, sid, subject, topic) ==
    \E i \in 1..Len(QuizRows(tbl, sid, subject, topic)) :
        ~HasQuestionTexts(QuizRows(tbl, sid, subject, topic)[i].questions)
GetQuizHistory(tbl, sid, subject, topic) ==
    Flatten([i \in 1..Len(QuizRows(tbl, sid, subject, topic)) |->
                QuestionTexts(QuizRows(tbl, sid, subject, topic)[i].questions)])

\* ------------------------------------------------------------------------
\* mcp_server/prompts.py
\* ------------------------------------------------------------------------
PromptLimit == 20

\* get_quiz_prompt: the questions the prompt tells the model not to repeat
PromptQuestions(previous_questions) == LastN(previous_questions, PromptLimit)

\* ------------------------------------------------------------------------
\* The StudyBuddy tools: bounds and inputs
\* ------------------------------------------------------------------------
MaxToolCalls == 2

\* what the model answers to a tool's prompt: documents with and without an
\* "error" key, with and without the content the tool saves, a value that
\* is no mapping, and text that is no JSON
DocContent == <<"{","\"","e","x","p","l","a","n","a","t","i","o","n","\"",":","\"","x","\"",",","\"","p","r","o","b","l","e","m","s","\"",":","[","{","}","]",",","\"","q","u","e","s","t","i","o","n","s","\"",":","[","{","\"","q","u","e","s","t","i","o","n","\"",":","\"","9","1","\"","}",",","{","\"","q","u","e","s","t","i","o","n","\"",":","\"","9","2","\"","}","]","}">>
DocErrorContent == <<"{","\"","e","r","r","o","r","\"",":","\"","e","\"",",","\"","e","x","p","l","a","n","a","t","i","o","n","\"",":","\"","x","\"",",","\"","p","r","o","b","l","e","m","s","\"",":","[","{","}","]",",","\"","q","u","e","s","t","i","o","n","s","\"",":","[","{","\"","q","u","e","s","t","i","o","n","\"",":","\"","9","9","\"","}","]","}">>
DocEmptyContent == <<"{","\"","e","x","p","l","a","n","a","t","i","o","n","\"",":","\"","\"",",","\"","p","r","o","b","l","e","m","s","\"",":","[","]",",","\"","q","u","e","s","t","i","o","n","s","\"",":","[","]","}">>
DocUnnamedQuestion == <<"{","\"","q","u","e","s","t","i","o","n","s","\"",":","[","{","\"","t","e","x","t","\"",":","\"","q","\"","}","]","}">>
DocNumber == <<"0">>

\* a quiz whose questions are the numbers lo..hi
RECURSIVE QuizItems(_, _)
QuizItems(lo, hi) ==
    IF lo > hi THEN <<>>
    ELSE <<"{", "\"">> \o QuestionKey \o <<"\"", ":", "\"">> \o Dec(lo) \o <<"\"", "}">>
            \o (IF lo < hi THEN <<",">> ELSE <<>>) \o QuizItems(lo + 1, hi)
QuizText(lo, hi) ==
    <<"{", "\"">> \o QuestionsKey \o <<"\"", ":", "[">> \o QuizItems(lo, hi) \o <<"]", "}">>
QuizB == QuizText(93, 95)

ToolTexts == {DocContent, QuizB, DocErrorContent, DocEmptyContent, DocUnnamedQuestion,
              DocNumber, <<"x">>}
ToolResponses == {CallRaised} \cup {Response("returned", 1, 1, TRUE, t) : t \in ToolTexts}

Topics == {"fractions", "algebra"}
Subjects == {"Mathematics"}

\* the tools' arguments: a topic of a student
Args(topic, subject, grade, board) ==
    [topic |-> topic, subject |-> subject, grade |-> grade, board |-> board]
ValidArgs == {Args("fractions", "Mathematics", 5, "CBSE"),
              Args("algebra", "Mathematics", 5, "CBSE"),
              Args("fractions", "Mathematics", 10, "IGCSE")}

\* the questions of the quizzes taken before the program started: quiz k
\* asked the questions 10(k-1)+1 .. 10k
QuizSize == 10
QuestionsOfQuiz(k) == [i \in 1..QuizSize |-> StrVal(Dec(QuizSize * (k - 1) + i))]
QuestionListOfQuiz(k) ==
    ArrVal([i \in 1..QuizSize |-> ObjVal(<< <<QuestionKey, QuestionsOfQuiz(k)[i]>> >>)])

\* ------------------------------------------------------------------------
\* mcp_server/server.py
\* ------------------------------------------------------------------------
\* max_retries of GeminiClient.generate_content when the caller gives none
DefaultMaxRetries == 3

\* result["metadata"] = {"tool": ..., ...} (the other entries are left out)
WithMetadata(res, tool) ==
    ObjVal(PutPair(res.body, MetadataKey, ObjVal(<< <<ToolKey, StrVal(<<tool>>)>> >>)))

\* sqlite3 can bind the value to a TEXT NOT NULL column
Bindable(v) == v.kind \in {"str", "num"} \/ (v.kind = "lit" /\ v.body # LitNull)

\* The three handlers that save their content: ckey is the key of the
\* content in the result, default what result.get gives without it, bind
\* whether the content is bound as it is (or through json.dumps).
ServerHandle(res, sid, ckey, default, bind, tool) ==
    IF ~Iterable(res) THEN Failed("TypeError")
    ELSE IF ~In(res, ErrorKey) /\ sid # 0
    THEN IF res.kind # "obj" THEN Failed("AttributeError")
         ELSE IF ~Truthy(GetOr(res, ckey, default)) THEN NotSaved(WithMetadata(res, tool))
         ELSE IF bind /\ ~Bindable(GetOr(res, ckey, default)) THEN Failed("InterfaceError")
         ELSE Saved(GetOr(res, ckey, default), WithMetadata(res, tool))
    ELSE IF res.kind # "obj" THEN Failed("TypeError")
    ELSE NotSaved(WithMetadata(res, tool))

HandleExplainTopic(res, sid) ==
    ServerHandle(res, sid, ExplanationKey, StrVal(<<>>), TRUE, "explain_topic")
HandleGeneratePractice(res, sid) ==
    ServerHandle(res, sid, ProblemsKey, ArrVal(<<>>), FALSE, "generate_practice")
HandleQuizMe(res, sid) ==
    ServerHandle(res, sid, QuestionsKey, ArrVal(<<>>), FALSE, "quiz_me")

\* call_tool's "except Exception": the error the tool returns instead
CallToolExcept(h, name) ==
    IF h.exc = "" THEN h
    ELSE [h EXCEPT !.out = ObjVal(<< <<ErrorKey, StrVal(<<h.exc>>)>>,
                                     <<ToolKey, StrVal(<<name>>)>>,
                                     <<SuggestionKey, StrVal(<<"Check that all required parameters are provided with correct types.">>)>> >>)]

\* the same topic asked under another subject as well
ServerArgs == ValidArgs \cup {Args("fractions", "Science", 5, "CBSE")}
ServerTools == {"studybuddy_explain_topic", "studybuddy_generate_practice", "studybuddy_quiz_me"}

\* what GeminiClient.generate_content returns to a handler
GeminiResults ==
    {o.value : o \in {x \in {GeminiExcept(GeminiTryBody(resp, a, DefaultMaxRetries),
                                          a, DefaultMaxRetries) :
                                 resp \in ToolResponses, a \in 0..(DefaultMaxRetries - 1)} :
                         x.ctl = "return"}}

\* the record of a tool call
Call(name, args, res, prev, listed, calls_made, h) ==
    [tool |-> name, args |-> args, result |-> res, previous |-> prev, listed |-> listed,
     model_calls |-> calls_made, exc |-> h.exc, saved |-> h.saved, out |-> h.out]

\* call_tool(name, arguments) for one of the tools that save their content
ServerCallTool ==
    /\ program = "server"
    /\ tool_calls < MaxToolCalls
    /\ \E name \in ServerTools, args \in ServerArgs, res \in GeminiResults :
          LET st == IF student_id = 0
                    THEN GetOrCreateStudent(students, "Student", args.grade, args.board)
                    ELSE [id |-> student_id, table |-> students]
              raises == name = "studybuddy_quiz_me"
                          /\ QuizHistoryRaises(quiz_history, st.id, args.subject, args.topic)
              prev == IF name = "studybuddy_quiz_me" /\ ~raises
                      THEN GetQuizHistory(quiz_history, st.id, args.subject, args.topic)
                      ELSE <<>>
              h == CallToolExcept(
                       IF raises THEN Failed("KeyError")
                       ELSE IF name = "studybuddy_explain_topic" THEN HandleExplainTopic(res, st.id)
                       ELSE IF name = "studybuddy_generate_practice"
                       THEN HandleGeneratePractice(res, st.id)
                       ELSE HandleQuizMe(res, st.id), name)
              row == [student_id |-> st.id, subject |-> args.subject, topic |-> args.topic]
          IN  /\ student_id' = st.id
              /\ students' = st.table
              /\ explained_topics' =
                    IF h.saved /\ name = "studybuddy_explain_topic"
                    THEN Append(explained_topics, row @@ [explanation |-> h.content])
                    ELSE explained_topics
              /\ practice_problems' =
                    IF h.saved /\ name = "studybuddy_generate_practice"
                    THEN Append(practice_problems, row @@ [problems |-> h.content])
                    ELSE practice_problems
              /\ quiz_history' =
                    IF h.saved /\ name = "studybuddy_quiz_me"
                    THEN Append(quiz_history, row @@ [questions |-> h.content, score |-> 0])
                    ELSE quiz_history
              /\ last' = Call(name, args, IF raises THEN NoValue ELSE res, prev,
                              PromptQuestions(prev), IF raises THEN 0 ELSE 1, h)
    /\ tool_calls' = tool_calls + 1
    /\ UNCHANGED <<program, user_profiles, learning_activities, quiz_questions,
                   notToolVars>>


\* ------------------------------------------------------------------------
\* gradio_app/app_dark.py
\* ------------------------------------------------------------------------
\* what a tool function hands to the page: a warning, the error line
\* ("Error:" and the suggestion or the error) or the formatted content
Warning == [kind |-> "warning", body |-> <<>>]
ErrorLine(v) == [kind |-> "error line", body |-> v]
ContentPage(res) == [kind |-> "content page", body |-> res]

\* the first statement of every format_* function
FormatError(res) ==
    IF res.kind # "obj" THEN Failed("AttributeError")
    ELSE NotSaved(ErrorLine(GetOr(res, SuggestionKey, Get(res, ErrorKey))))

\* format_explanation: the loop over key_points needs an iterable
FormatExplanation(res) ==
    IF ~Iterable(res) THEN Failed("TypeError")
    ELSE IF In(res, ErrorKey) THEN FormatError(res)
    ELSE IF res.kind # "obj" THEN Failed("AttributeError")
    ELSE IF ~Iterable(GetOr(res, KeyPointsKey, ArrVal(<<>>))) THEN Failed("TypeError")
    ELSE NotSaved(ContentPage(res))

\* format_practice and format_quiz: every item of the list is asked .get
FormatItems(res, ckey) ==
    IF ~Iterable(res) THEN Failed("TypeError")
    ELSE IF In(res, ErrorKey) THEN FormatError(res)
    ELSE IF res.kind # "obj" THEN Failed("AttributeError")
    ELSE IF ~Iterable(GetOr(res, ckey, ArrVal(<<>>))) THEN Failed("TypeError")
    ELSE IF GetOr(res, ckey, ArrVal(<<>>)).kind # "arr" THEN Failed("AttributeError")
    ELSE IF \E i \in 1..Len(GetOr(res, ckey, ArrVal(<<>>)).body) :
                GetOr(res, ckey, ArrVal(<<>>)).body[i].kind # "obj"
    THEN Failed("AttributeError")
    ELSE NotSaved(ContentPage(res))
FormatPractice(res) == FormatItems(res, ProblemsKey)
FormatQuiz(res) == FormatItems(res, QuestionsKey)

\* _explain and _gen after the model's answer: save unless "error" is in
\* the result, then format
AppSave(res, ckey, default, bind, f) ==
    IF ~Iterable(res) THEN Failed("TypeError")
    ELSE IF In(res, ErrorKey) THEN f
    ELSE IF res.kind # "obj" THEN Failed("AttributeError")
    ELSE IF bind /\ ~Bindable(GetOr(res, ckey, default)) THEN Failed("sqlite3.Error")
    ELSE [f EXCEPT !.saved = TRUE, !.content = GetOr(res, ckey, default)]

AppExplainTopic(res) == AppSave(res, ExplanationKey, StrVal(<<>>), TRUE, FormatExplanation(res))
AppGeneratePractice(res) == AppSave(res, ProblemsKey, ArrVal(<<>>), FALSE, FormatPractice(res))

\* what OpenAIClient.generate_content returns to a tool function
OpenAIResults == {OpenAIExcept(OpenAITryBody(resp)).value : resp \in ToolResponses}

Names == {"", "Student", "Asha"}
AppTopics == {"", "fractions"}
AppTools == {"explain_topic", "generate_practice", "quiz_me"}
AppArgs == [topic : AppTopics, subject : Subjects]

\* initialize_student(name, grade, board)
InitializeStudent ==
    /\ program = "app"
    /\ tool_calls < MaxToolCalls
    /\ \E name \in Names, grade \in {5}, board \in {"CBSE"} :
          LET st == IF name = "" THEN [id |-> student_id, table |-> students]
                    ELSE GetOrCreateStudent(students, name, grade, board)
          IN  /\ student_id' = st.id
              /\ students' = st.table
              /\ last' = [tool |-> "initialize_student", name |-> name, grade |-> grade,
                          board |-> board]
    /\ tool_calls' = tool_calls + 1
    /\ UNCHANGED <<program, explained_topics, practice_problems, quiz_history, user_profiles,
                   learning_activities, quiz_questions, notToolVars>>

\* explain_topic(), generate_practice(num) and quiz_me(); current_topic and
\* current_subject are what the page set (args)
AppToolCall ==
    /\ program = "app"
    /\ tool_calls < MaxToolCalls
    /\ \E name \in AppTools, args \in AppArgs, res \in OpenAIResults :
          LET warned == student_id = 0 \/ args.topic = ""
              raises == ~warned /\ name = "quiz_me"
                          /\ QuizHistoryRaises(quiz_history, student_id, args.subject, args.topic)
              prev == IF ~warned /\ name = "quiz_me" /\ ~raises
                      THEN GetQuizHistory(quiz_history, student_id, args.subject, args.topic)
                      ELSE <<>>
              h == IF warned THEN NotSaved(Warning)
                   ELSE IF raises THEN Failed("KeyError")
                   ELSE IF name = "explain_topic" THEN AppExplainTopic(res)
                   ELSE IF name = "generate_practice" THEN AppGeneratePractice(res)
                   ELSE FormatQuiz(res)
              row == [student_id |-> student_id, subject |-> args.subject, topic |-> args.topic]
          IN  /\ explained_topics' =
                    IF h.saved /\ name = "explain_topic"
                    THEN Append(explained_topics, row @@ [explanation |-> h.content])
                    ELSE explained_topics
              /\ practice_problems' =
                    IF h.saved /\ name = "generate_practice"
                    THEN Append(practice_problems, row @@ [problems |-> h.content])
                    ELSE practice_problems
              /\ last' = Call(name, args, IF warned \/ raises THEN NoValue ELSE res, prev,
                              PromptQuestions(prev), IF warned \/ raises THEN 0 ELSE 1, h)
    /\ tool_calls' = tool_calls + 1
    /\ UNCHANGED <<program, student_id, students, quiz_history, user_profiles,
                   learning_activities, quiz_questions, notToolVars>>


\* ------------------------------------------------------------------------
\* studybuddy_mcp_server.py (FastMCP server)
\* ------------------------------------------------------------------------
\* call_gemini: the first `failures` attempts raise (the call itself, or
\* response.text), the next one returns text t; the last failure is raised
CallGemini(failures, t, retries) ==
    IF failures >= retries THEN [raised |-> TRUE, text |-> <<>>, calls |-> retries]
    ELSE [raised |-> FALSE, text |-> t, calls |-> failures + 1]

\* get_user_id without the SELECT: a row is inserted every time
GetUserIdAlwaysInserts(tbl, name, grade, board) ==
    [id |-> Len(tbl) + 1,
     table |-> Append(tbl, [name |-> name, grade |-> grade, board |-> board])]

\* get_user_id: the id returned and user_profiles afterwards
GetUserId(tbl, name, grade, board) ==
    IF StudentRows(tbl, name, grade, board) # {}
    THEN [id |-> CHOOSE i \in StudentRows(tbl, name, grade, board) :
                     \A j \in StudentRows(tbl, name, grade, board) : i <= j,
          table |-> tbl]
    ELSE [id |-> Len(tbl) + 1,
          table |-> Append(tbl, [name |-> name, grade |-> grade, board |-> board])]

\* LIMIT 50 of get_previous_quiz_questions, [-30:] of get_quiz_prompt
PreviousLimit == 50
FastPromptLimit == 30

\* the rows of a user and topic, in rowid order
QuizQuestionRows(tbl, uid, topic) ==
    SelectSeq(tbl, LAMBDA row : row.user_id = uid /\ row.topic = topic)

\* ORDER BY created_at DESC: the rows of the latest time first. Rows of
\* equal created_at come in an order SQLite does not define: by rowid
\* upwards or downwards, as `tie` says.
Ties == {"up", "down"}
Reverse(s) == [i \in 1..Len(s) |-> s[Len(s) + 1 - i]]
CreatedAt(rows, time, tie) ==
    IF tie = "up" THEN SelectSeq(rows, LAMBDA row : row.created_at = time)
    ELSE Reverse(SelectSeq(rows, LAMBDA row : row.created_at = time))
Latest(times) == CHOOSE time \in times : \A other \in times : other <= time
RECURSIVE LatestFirst(_, _, _)
LatestFirst(rows, times, tie) ==
    IF times = {} THEN <<>>
    ELSE CreatedAt(rows, Latest(times), tie)
            \o LatestFirst(rows, times \ {Latest(times)}, tie)
OrderByCreatedAtDesc(rows, tie) ==
    LatestFirst(rows, {rows[k].created_at : k \in 1..Len(rows)}, tie)

FirstN(qs, n) == IF Len(qs) <= n THEN qs ELSE SubSeq(qs, 1, n)
QuestionTextOf(rows) == [p \in 1..Len(rows) |-> rows[p].question_text]

GetPreviousQuizQuestions(tbl, uid, topic, tie) ==
    QuestionTextOf(FirstN(OrderByCreatedAtDesc(QuizQuestionRows(tbl, uid, topic), tie),
                          PreviousLimit))

\* previous_questions[-30:] in get_quiz_prompt
FastPromptQuestions(previous_questions) == LastN(previous_questions, FastPromptLimit)

\* store_quiz_questions: hash(question) raises for a list or a dict;
\* INSERT OR IGNORE skips a NULL question_text. created_at is the time of
\* the call, later than every time in the table.
Unhashable(texts) == \E i \in 1..Len(texts) : texts[i].kind \in {"arr", "obj"}
Now(tbl) == IF tbl = <<>> THEN 1 ELSE tbl[Len(tbl)].created_at + 1
RECURSIVE StoreQuizQuestions(_, _, _, _, _)
StoreQuizQuestions(tbl, uid, topic, texts, now) ==
    IF texts = <<>> THEN tbl
    ELSE StoreQuizQuestions(
             IF Head(texts) = LitVal(LitNull) THEN tbl
             ELSE Append(tbl, [user_id |-> uid, topic |-> topic,
                               question_text |-> Head(texts), created_at |-> now]),
             uid, topic, Tail(texts), now)

\* the tools that take a board; the others look up the user with "GENERAL"
BoardTools == {"studybuddy_explain_topic", "studybuddy_generate_practice",
               "studybuddy_quiz_me"}
UserBoard(name, args) == IF name \in BoardTools THEN args.board ELSE "GENERAL"

\* the checks with grades up to 11 let through
InvalidAboveTen(name, args) ==
    IF args.topic = "" \/ args.subject = "" THEN "Topic and subject are required"
    ELSE IF args.grade < 5 \/ args.grade > 11 THEN "Grade must be between 5 and 10"
    ELSE IF name \in BoardTools /\ args.board \notin {"CBSE", "ICSE", "IGCSE"}
    THEN "Board must be CBSE, ICSE, or IGCSE"
    ELSE IF name = "studybuddy_generate_practice"
              /\ (args.num_questions < 1 \/ args.num_questions > 10)
    THEN "Number of questions must be between 1 and 10"
    ELSE ""

\* the checks every tool starts with: the message of the ValueError, or "".
\* studybuddy_solve_step_by_step calls its topic `problem`.
Invalid(name, args) ==
    IF args.topic = "" \/ args.subject = ""
    THEN IF name = "studybuddy_solve_step_by_step"
         THEN "Problem statement and subject are required"
         ELSE "Topic and subject are required"
    ELSE IF args.grade < 5 \/ args.grade > 10 THEN "Grade must be between 5 and 10"
    ELSE IF name \in BoardTools /\ args.board \notin {"CBSE", "ICSE", "IGCSE"}
    THEN "Board must be CBSE, ICSE, or IGCSE"
    ELSE IF name = "studybuddy_generate_practice"
              /\ (args.num_questions < 1 \/ args.num_questions > 10)
    THEN "Number of questions must be between 1 and 10"
    ELSE ""

\* the quiz tool between validate_json_response and log_activity: the
\* exception raised, or the question texts to store
QuizStoreRaises(res) ==
    IF ~Iterable(res) THEN "TypeError"
    ELSE IF ~In(res, QuestionsKey) THEN ""
    ELSE IF res.kind # "obj" THEN "TypeError"
    ELSE IF ~HasQuestionTexts(Get(res, QuestionsKey)) THEN "KeyError"
    ELSE IF Unhashable(QuestionTexts(Get(res, QuestionsKey))) THEN "TypeError"
    ELSE ""
QuizNewQuestions(res) ==
    IF Iterable(res) /\ In(res, QuestionsKey) /\ QuizStoreRaises(res) = ""
    THEN QuestionTexts(Get(res, QuestionsKey)) ELSE <<>>

\* the activity_type each tool logs
ActivityType(name) ==
    CASE name = "studybuddy_explain_topic" -> "explanation"
      [] name = "studybuddy_generate_practice" -> "practice_problems"
      [] name = "studybuddy_quiz_me" -> "quiz_completed"
      [] name = "studybuddy_solve_step_by_step" -> "problem_solved"
      [] name = "studybuddy_create_story" -> "story_created"

\* the topic each tool logs: f"Problem: {problem[:50]}..." for a problem
ActivityTopic(name, args) ==
    IF name # "studybuddy_solve_step_by_step" THEN args.topic
    ELSE CASE args.topic = "fractions" -> "Problem: fractions..."
           [] args.topic = "algebra" -> "Problem: algebra..."

\* the "except Exception" of every tool
FailureMessage(name) ==
    CASE name = "studybuddy_explain_topic" -> "Failed to generate explanation. Please try again."
      [] name = "studybuddy_generate_practice" ->
            "Failed to generate practice problems. Please try again."
      [] name = "studybuddy_quiz_me" -> "Failed to generate quiz. Please try again."
      [] name = "studybuddy_solve_step_by_step" -> "Failed to solve problem. Please try again."
      [] name = "studybuddy_create_story" -> "Failed to create story. Please try again."
ErrFastMcp(e, name, topic) ==
    ObjVal(<< <<ErrorKey, StrVal(<<e>>)>>,
              <<IF name = "studybuddy_solve_step_by_step" THEN ProblemKey ELSE TopicKey,
                StrVal(<<topic>>)>>,
              <<MessageKey, StrVal(<<FailureMessage(name)>>)>> >>)

FastMcpTools == {"studybuddy_explain_topic", "studybuddy_generate_practice",
                 "studybuddy_solve_step_by_step", "studybuddy_create_story",
                 "studybuddy_quiz_me"}
FastArgs(a, num_questions, student_name) ==
    a @@ [num_questions |-> num_questions, student_name |-> student_name]
FastMcpValidArgs ==
    {FastArgs(Args("fractions", "Mathematics", 5, "CBSE"), 1, "Student"),
     FastArgs(Args("algebra", "Mathematics", 5, "CBSE"), 1, "Student"),
     FastArgs(Args("fractions", "Science", 5, "CBSE"), 1, "Student"),
     FastArgs(Args("fractions", "Mathematics", 10, "IGCSE"), 10, "Asha")}
\* one argument out of its range
FastMcpInvalidArgs ==
    {FastArgs(Args("", "Mathematics", 5, "CBSE"), 1, "Student"),
     FastArgs(Args("fractions", "", 5, "CBSE"), 1, "Student"),
     FastArgs(Args("fractions", "Mathematics", 4, "CBSE"), 1, "Student"),
     FastArgs(Args("fractions", "Mathematics", 11, "CBSE"), 1, "Student"),
     FastArgs(Args("fractions", "Mathematics", 5, "GENERAL"), 1, "Student"),
     FastArgs(Args("fractions", "Mathematics", 5, "CBSE"), 0, "Student"),
     FastArgs(Args("fractions", "Mathematics", 5, "CBSE"), 11, "Student")}
FastMcpArgs == FastMcpValidArgs \cup FastMcpInvalidArgs

\* call_gemini and validate_json_response: how many calls were made, and
\* the exception (exc) or the parsed result (val)
Generated(g, v) ==
    [calls |-> g.calls,
     exc |-> IF g.raised THEN "model call failed"
             ELSE IF v.raises THEN "Invalid JSON response from AI" ELSE "",
     val |-> IF g.raised THEN NoValue ELSE v.val]
FastMcpResults ==
    {Generated(CallGemini(failures, t, DefaultMaxRetries), ValidateJsonResponse(t)) :
        failures \in {0}, t \in ToolTexts}
    \cup {Generated(CallGemini(failures, DocContent, DefaultMaxRetries),
                    ValidateJsonResponse(DocContent)) : failures \in 1..DefaultMaxRetries}

\* a tool whose checks raise ValueError(invalid)
FastMcpRejects(name, args, invalid) ==
    /\ last' = [tool |-> name, args |-> args, result |-> NoValue, previous |-> <<>>,
                listed |-> <<>>, model_calls |-> 0, exc |-> invalid, saved |-> FALSE,
                out |-> ErrFastMcp(invalid, name, args.topic), user_id |-> 0,
                new_questions |-> <<>>]
    /\ UNCHANGED <<user_profiles, quiz_questions, learning_activities>>

\* a tool that logs the activity before it calls the model
FastMcpServesLogsFirst(name, args, u, prev, r, exc, new_questions) ==
    /\ user_profiles' = u.table
    /\ quiz_questions' =
          IF new_questions = <<>> THEN quiz_questions
          ELSE StoreQuizQuestions(quiz_questions, u.id, args.topic, new_questions,
                                  Now(quiz_questions))
    /\ learning_activities' =
          Append(learning_activities,
                 [user_id |-> u.id, activity_type |-> ActivityType(name),
                  topic |-> ActivityTopic(name, args), subject |-> args.subject,
                  content |-> r.val])
    /\ last' = [tool |-> name, args |-> args, result |-> r.val, previous |-> prev,
                listed |-> FastPromptQuestions(prev), model_calls |-> r.calls,
                exc |-> exc, saved |-> exc = "",
                out |-> IF exc = "" THEN r.val ELSE ErrFastMcp(exc, name, args.topic),
                user_id |-> u.id, new_questions |-> new_questions]

\* a tool after its checks
FastMcpServes(name, args, u, prev, r, exc, new_questions) ==
    /\ user_profiles' = u.table
    /\ quiz_questions' =
          IF new_questions = <<>> THEN quiz_questions
          ELSE StoreQuizQuestions(quiz_questions, u.id, args.topic, new_questions,
                                  Now(quiz_questions))
    /\ learning_activities' =
          IF exc = ""
          THEN Append(learning_activities,
                      [user_id |-> u.id, activity_type |-> ActivityType(name),
                       topic |-> ActivityTopic(name, args), subject |-> args.subject,
                       content |-> r.val])
          ELSE learning_activities
    /\ last' = [tool |-> name, args |-> args, result |-> r.val, previous |-> prev,
                listed |-> FastPromptQuestions(prev), model_calls |-> r.calls,
                exc |-> exc, saved |-> exc = "",
                out |-> IF exc = "" THEN r.val ELSE ErrFastMcp(exc, name, args.topic),
                user_id |-> u.id, new_questions |-> new_questions]

\* studybuddy_explain_topic, studybuddy_generate_practice,
\* studybuddy_solve_step_by_step, studybuddy_create_story and
\* studybuddy_quiz_me
FastMcpToolCall ==
    /\ program = "fastmcp"
    /\ tool_calls < MaxToolCalls
    /\ \E name \in FastMcpTools, args \in FastMcpArgs :
          IF Invalid(name, args) # "" THEN FastMcpRejects(name, args, Invalid(name, args))
          ELSE \E r \in FastMcpResults,
                  tie \in IF name = "studybuddy_quiz_me" THEN Ties ELSE {"up"} :
                  LET u == GetUserId(user_profiles, args.student_name, args.grade,
                                     UserBoard(name, args))
                      quiz == name = "studybuddy_quiz_me"
                      prev == IF quiz
                              THEN GetPreviousQuizQuestions(quiz_questions, u.id, args.topic, tie)
                              ELSE <<>>
                      exc == IF r.exc # "" THEN r.exc
                             ELSE IF quiz THEN QuizStoreRaises(r.val) ELSE ""
                      new_questions == IF quiz /\ exc = "" THEN QuizNewQuestions(r.val) ELSE <<>>
                  IN  FastMcpServes(name, args, u, prev, r, exc, new_questions)
    /\ tool_calls' = tool_calls + 1
    /\ UNCHANGED <<program, student_id, students, explained_topics, practice_problems,
                   quiz_history, notToolVars>>


\* ------------------------------------------------------------------------
\* The StudyBuddy tools, one program at a time, from the database the
\* earlier runs left
\* ------------------------------------------------------------------------
HistoryStudent == [name |-> "Student", grade |-> 5, board |-> "CBSE"]
HistoryTopic == "fractions"
HistorySubject == "Mathematics"

\* quiz_history after h quizzes of the first student (mcp_server)
QuizHistoryAfter(h) ==
    [k \in 1..h |-> [student_id |-> 1, subject |-> HistorySubject, topic |-> HistoryTopic,
                     questions |-> QuestionListOfQuiz(k), score |-> 0]]

\* quiz_questions after h quizzes of the first user (FastMCP): the
\* questions of quiz k were stored at time k
QuizQuestionsAfter(h) ==
    [n \in 1..(QuizSize * h) |->
        [user_id |-> 1, topic |-> HistoryTopic,
         question_text |-> QuestionsOfQuiz(((n - 1) \div QuizSize) + 1)[((n - 1) % QuizSize) + 1],
         created_at |-> ((n - 1) \div QuizSize) + 1]]

InitTools ==
    /\ ProcIdle
    /\ GenIdle
    /\ invocations = <<>>
    /\ trainbot = NoCall
    /\ program \in {"server", "app", "fastmcp"}
    /\ student_id = 0
    /\ explained_topics = <<>>
    /\ practice_problems = <<>>
    /\ learning_activities = <<>>
    /\ tool_calls = 0
    /\ last = NoCall
    /\ \E h \in IF program = "fastmcp" THEN {0, 6} ELSE {0, 3} :
          /\ students = IF h > 0 /\ program # "fastmcp" THEN <<HistoryStudent>> ELSE <<>>
          /\ quiz_history = IF program # "fastmcp" THEN QuizHistoryAfter(h) ELSE <<>>
          /\ user_profiles = IF h > 0 /\ program = "fastmcp" THEN <<HistoryStudent>> ELSE <<>>
          /\ quiz_questions = IF program = "fastmcp" THEN QuizQuestionsAfter(h) ELSE <<>>

NextTools ==
    \/ ServerCallTool
    \/ InitializeStudent
    \/ AppToolCall
    \/ FastMcpToolCall

SpecTools == InitTools /\ [][NextTools]_vars


\* ------------------------------------------------------------------------
\* Several generate_content calls on the one GeminiClient
\* ------------------------------------------------------------------------
\* get_gemini_client() hands every caller the same object; each call of
\* generate_content has its position (pc) and its own frame of locals. The
\* object's attributes (api_key, model) are assigned in __init__ only.
Tasks == {1, 2}

\* the frame of locals a call reads and writes, were they attributes of
\* the shared client
FrameOfClient(p) == 1

\* the frame of locals a call reads and writes: its own
Frame(p) == p

NewTask(m) == [max_retries |-> m, pc |-> "loop", received |-> <<>>, result |-> NoValue,
               returned_by |-> ""]
NewFrame(m) == [max_retries |-> m, attempt |-> 0, response_text |-> <<>>]

ConcResponses ==
    {CallRaised, Response("returned", 1, 1, TRUE, DocA1),
     Response("returned", 1, 1, TRUE, TrailingA1),
     Response("returned", 1, 1, TRUE, SubSeq(DocHello, 1, Len(DocHello) - 2)),
     Response("returned", 1, 1, TRUE, <<"x">>)}

\* what the pass of call p makes of the outcome o
ConcFinish(p, resp, o) ==
    invocations' =
        [tasks |-> [invocations.tasks EXCEPT
                      ![p] = [@ EXCEPT !.received = Append(@, resp),
                                       !.pc = IF o.ctl = "continue" THEN "loop" ELSE "done",
                                       !.result = o.value,
                                       !.returned_by = o.by]],
         frames |-> [invocations.frames EXCEPT
                      ![Frame(p)] = [@ EXCEPT !.response_text = o.text,
                                              !.attempt = IF o.ctl = "continue"
                                                          THEN @ + 1 ELSE @]]]

\* self.model.generate_content(prompt) of call p
ConcIssueCall(p) ==
    /\ invocations.tasks[p].pc = "loop"
    /\ invocations.frames[Frame(p)].attempt < invocations.frames[Frame(p)].max_retries
    /\ invocations' = [invocations EXCEPT !.tasks[p].pc = "call"]
    /\ UNCHANGED <<genVars, cleanVars, toolVars, trainVars, procVars>>

\* the model call of p ends and the rest of the loop body runs
ConcReceive(p) ==
    /\ invocations.tasks[p].pc = "call"
    /\ \E resp \in ConcResponses :
          ConcFinish(p, resp,
                     GeminiExcept(GeminiTryBody(resp, invocations.frames[Frame(p)].attempt,
                                                invocations.frames[Frame(p)].max_retries),
                                  invocations.frames[Frame(p)].attempt,
                                  invocations.frames[Frame(p)].max_retries))
    /\ UNCHANGED <<genVars, cleanVars, toolVars, trainVars, procVars>>

\* range(max_retries) of p is exhausted
ConcLoopExhausted(p) ==
    /\ invocations.tasks[p].pc = "loop"
    /\ ~(invocations.frames[Frame(p)].attempt < invocations.frames[Frame(p)].max_retries)
    /\ invocations' = [invocations EXCEPT !.tasks[p].pc = "done",
                                          !.tasks[p].result = ErrMaxRetries,
                                          !.tasks[p].returned_by = "max_retries"]
    /\ UNCHANGED <<genVars, cleanVars, toolVars, trainVars, procVars>>

InitConcurrent ==
    /\ ProcIdle
    /\ GenIdle
    /\ ToolsIdle
    /\ trainbot = NoCall
    /\ \E m \in [Tasks -> 0..MaxRetries] :
          invocations = [tasks |-> [p \in Tasks |-> NewTask(m[p])],
                         frames |-> [p \in Tasks |-> NewFrame(m[p])]]

NextConcurrent ==
    \/ \E p \in Tasks : ConcIssueCall(p)
    \/ \E p \in Tasks : ConcReceive(p)
    \/ \E p \in Tasks : ConcLoopExhausted(p)

SpecConcurrent == InitConcurrent /\ [][NextConcurrent]_vars


\* ------------------------------------------------------------------------
\* TrainBot-MCP/trainbot_server.py
\* ------------------------------------------------------------------------
\* str.lower()
UpperCase == <<"A","B","C","D","E","F","G","H","I","J","K","L","M","N","O","P","Q","R","S","T","U","V","W","X","Y","Z">>
LowerCase == <<"a","b","c","d","e","f","g","h","i","j","k","l","m","n","o","p","q","r","s","t","u","v","w","x","y","z">>
LowerChar(c) ==
    IF \E i \in 1..Len(UpperCase) : UpperCase[i] = c
    THEN LowerCase[CHOOSE i \in 1..Len(UpperCase) : UpperCase[i] = c]
    ELSE c
Lower(t) == [i \in 1..Len(t) |-> LowerChar(t[i])]

\* what a generate_with_* function returns: the provider's text, or an
\* error text of its own (no API key, package not installed, API error)
ProviderReplies == {"content", "provider error"}

\* the outcome of a tool: what it returns (out), how often generate_content
\* was entered, and the provider function called ("none" when none was)
Outcome(out, entered, provider, name) ==
    [out |-> out, generate_content_calls |-> entered, provider |-> provider,
     provider_calls |-> IF provider = "none" THEN 0 ELSE 1, unsupported |-> name]

\* generate_content without the strip()
DispatchUnstripped(provider, reply) ==
    IF Lower(provider) = <<"o","p","e","n","a","i">> THEN Outcome(reply, 1, "openai", <<>>)
    ELSE IF Lower(provider) \in {<<"a","n","t","h","r","o","p","i","c">>, <<"c","l","a","u","d","e">>}
    THEN Outcome(reply, 1, "anthropic", <<>>)
    ELSE IF Lower(provider) \in {<<"g","e","m","i","n","i">>, <<"g","o","o","g","l","e">>}
    THEN Outcome(reply, 1, "gemini", <<>>)
    ELSE Outcome("Unsupported provider", 1, "none", Lower(provider))

\* generate_content from line 126 on: provider is the name as the caller
\* gave it
Dispatch(provider, reply) ==
    IF Strip(Lower(provider)) = <<"o","p","e","n","a","i">> THEN Outcome(reply, 1, "openai", <<>>)
    ELSE IF Strip(Lower(provider)) \in {<<"a","n","t","h","r","o","p","i","c">>, <<"c","l","a","u","d","e">>}
    THEN Outcome(reply, 1, "anthropic", <<>>)
    ELSE IF Strip(Lower(provider)) \in {<<"g","e","m","i","n","i">>, <<"g","o","o","g","l","e">>}
    THEN Outcome(reply, 1, "gemini", <<>>)
    ELSE Outcome("Unsupported provider", 1, "none", Strip(Lower(provider)))

\* generate_content(prompt, provider)
GenerateContent(provider, reply) == Dispatch(provider, reply)

\* the sets the tools test level, difficulty and depth against
Levels == {<<"b","e","g","i","n","n","e","r">>, <<"i","n","t","e","r","m","e","d","i","a","t","e">>, <<"a","d","v","a","n","c","e","d">>}
QuizDifficulties == {<<"e","a","s","y">>, <<"m","e","d","i","u","m">>, <<"h","a","r","d">>, <<"m","i","x","e","d">>}
PracticeDifficulties == {<<"e","a","s","y">>, <<"m","e","d","i","u","m">>, <<"h","a","r","d">>, <<"p","r","o","g","r","e","s","s","i","v","e">>}
Depths == {<<"b","r","i","e","f">>, <<"c","o","m","p","r","e","h","e","n","s","i","v","e">>, <<"d","e","t","a","i","l","e","d">>}

Rejected(message) == Outcome(message, 0, "none", <<>>)

\* the count test with 0 let through
CountOutOfRangeFromZero(count, most) == count < 0 \/ count > most

\* "if count <= 0 or count > most"
CountOutOfRange(count, most) == count <= 0 \/ count > most

\* "if level.lower() not in [...]"
NotAmong(level, allowed) == Lower(level) \notin allowed

GenerateFlashcards(count, level, ai_provider, reply) ==
    IF CountOutOfRange(count, 50) THEN Rejected("Error: count must be between 1 and 50")
    ELSE IF NotAmong(level, Levels)
    THEN Rejected("Error: level must be 'beginner', 'intermediate', or 'advanced'")
    ELSE GenerateContent(ai_provider, reply)
GenerateCourse(modules, level, ai_provider, reply) ==
    IF CountOutOfRange(modules, 15) THEN Rejected("Error: modules must be between 1 and 15")
    ELSE IF NotAmong(level, Levels)
    THEN Rejected("Error: level must be 'beginner', 'intermediate', or 'advanced'")
    ELSE GenerateContent(ai_provider, reply)
CreateQuiz(questions, difficulty, ai_provider, reply) ==
    IF CountOutOfRange(questions, 30) THEN Rejected("Error: questions must be between 1 and 30")
    ELSE IF NotAmong(difficulty, QuizDifficulties)
    THEN Rejected("Error: difficulty must be 'easy', 'medium', 'hard', or 'mixed'")
    ELSE GenerateContent(ai_provider, reply)
TrainBotExplainTopic(depth, ai_provider, reply) ==
    IF NotAmong(depth, Depths)
    THEN Rejected("Error: depth must be 'brief', 'comprehensive', or 'detailed'")
    ELSE GenerateContent(ai_provider, reply)
CreatePracticeProblems(count, difficulty, ai_provider, reply) ==
    IF CountOutOfRange(count, 20) THEN Rejected("Error: count must be between 1 and 20")
    ELSE IF NotAmong(difficulty, PracticeDifficulties)
    THEN Rejected("Error: difficulty must be 'easy', 'medium', 'hard', or 'progressive'")
    ELSE GenerateContent(ai_provider, reply)

\* the arguments of a call
Counts == {0 - 1, 0, 1, 15, 16, 20, 21, 30, 31, 50, 51}
LevelNames ==
    {<<"b","e","g","i","n","n","e","r">>,
     <<"I","n","t","e","r","m","e","d","i","a","t","e">>,
     <<"A","D","V","A","N","C","E","D">>,
     <<"e","a","s","y">>,
     <<"M","e","d","i","u","m">>,
     <<"h","a","r","d">>,
     <<"m","i","x","e","d">>,
     <<"p","r","o","g","r","e","s","s","i","v","e">>,
     <<"b","r","i","e","f">>,
     <<"D","e","t","a","i","l","e","d">>,
     <<"c","o","m","p","r","e","h","e","n","s","i","v","e">>,
     <<" ","e","a","s","y">>,
     <<"e","x","p","e","r","t">>,
     <<>>}
ProviderNames ==
    {<<"o","p","e","n","a","i">>,
     <<"O","p","e","n","A","I">>,
     <<" ","o","p","e","n","a","i","\n">>,
     <<"a","n","t","h","r","o","p","i","c">>,
     <<"C","l","a","u","d","e">>,
     <<"c","l","a","u","d","e"," ">>,
     <<"g","e","m","i","n","i">>,
     <<"G","O","O","G","L","E">>,
     <<"g","o","o","g","l","e">>,
     <<"g","p","t">>,
     <<"o","p","e","n"," ","a","i">>,
     <<>>}

\* the tool was called with the arguments drawn and returned
Called(tool, o) ==
    /\ trainbot.tool = "none"
    /\ trainbot' = [trainbot EXCEPT !.tool = tool] @@ o
    /\ UNCHANGED <<genVars, cleanVars, toolVars, concVars, procVars>>

CallGenerateContent ==
    \E reply \in ProviderReplies :
       Called("generate_content", GenerateContent(trainbot.ai_provider, reply))
CallGenerateFlashcards ==
    \E reply \in ProviderReplies :
       Called("generate_flashcards",
              GenerateFlashcards(trainbot.count, trainbot.level, trainbot.ai_provider, reply))
CallGenerateCourse ==
    \E reply \in ProviderReplies :
       Called("generate_course",
              GenerateCourse(trainbot.count, trainbot.level, trainbot.ai_provider, reply))
CallCreateQuiz ==
    \E reply \in ProviderReplies :
       Called("create_quiz",
              CreateQuiz(trainbot.count, trainbot.level, trainbot.ai_provider, reply))
CallExplainTopic ==
    \E reply \in ProviderReplies :
       Called("explain_topic", TrainBotExplainTopic(trainbot.level, trainbot.ai_provider, reply))
CallCreatePracticeProblems ==
    \E reply \in ProviderReplies :
       Called("create_practice_problems",
              CreatePracticeProblems(trainbot.count, trainbot.level, trainbot.ai_provider, reply))

\* a call is about to be made with some arguments: a count (count, modules
\* or questions), a level (level, difficulty or depth) and a provider
InitTrainBot ==
    /\ ProcIdle
    /\ GenIdle
    /\ ToolsIdle
    /\ invocations = <<>>
    /\ \E count \in Counts, level \in LevelNames, ai_provider \in ProviderNames :
          trainbot = [tool |-> "none", count |-> count, level |-> level,
                      ai_provider |-> ai_provider]

NextTrainBot ==
    \/ CallGenerateContent
    \/ CallGenerateFlashcards
    \/ CallGenerateCourse
    \/ CallCreateQuiz
    \/ CallExplainTopic
    \/ CallCreatePracticeProblems

SpecTrainBot == InitTrainBot /\ [][NextTrainBot]_vars


\* ------------------------------------------------------------------------
\* Looking up students: a sequence of calls of get_or_create_student
\* (mcp_server) or of get_user_id (FastMCP) on a database that starts empty
\* ------------------------------------------------------------------------
MaxLookups == 4

\* the students looked up: names, grades and boards as the tools take them
LookupNames == {"Student", "Asha"}
LookupGrades == {5, 10}
LookupBoards == {"CBSE", "IGCSE"}

\* the call made, with the id it returned, is added to the calls so far
Looked(name, grade, board, id) ==
    last' = [last EXCEPT !.lookups = Append(@, [name |-> name, grade |-> grade,
                                                board |-> board, id |-> id])]

CallGetOrCreateStudent ==
    /\ program = "server"
    /\ tool_calls < MaxLookups
    /\ \E name \in LookupNames, grade \in LookupGrades, board \in LookupBoards :
          /\ students' = GetOrCreateStudent(students, name, grade, board).table
          /\ student_id' = GetOrCreateStudent(students, name, grade, board).id
          /\ Looked(name, grade, board, GetOrCreateStudent(students, name, grade, board).id)
    /\ tool_calls' = tool_calls + 1
    /\ UNCHANGED <<program, explained_topics, practice_problems, quiz_history, user_profiles,
                   learning_activities, quiz_questions, notToolVars>>

CallGetUserId ==
    /\ program = "fastmcp"
    /\ tool_calls < MaxLookups
    /\ \E name \in LookupNames, grade \in LookupGrades, board \in LookupBoards :
          /\ user_profiles' = GetUserId(user_profiles, name, grade, board).table
          /\ Looked(name, grade, board, GetUserId(user_profiles, name, grade, board).id)
    /\ tool_calls' = tool_calls + 1
    /\ UNCHANGED <<program, student_id, students, explained_topics, practice_problems,
                   quiz_history, learning_activities, quiz_questions, notToolVars>>

InitStudents ==
    /\ ProcIdle
    /\ GenIdle
    /\ invocations = <<>>
    /\ trainbot = NoCall
    /\ program \in {"server", "fastmcp"}
    /\ student_id = 0
    /\ students = <<>>
    /\ explained_topics = <<>>
    /\ practice_problems = <<>>
    /\ quiz_history = <<>>
    /\ user_profiles = <<>>
    /\ learning_activities = <<>>
    /\ quiz_questions = <<>>
    /\ tool_calls = 0
    /\ last = [tool |-> "lookup", lookups |-> <<>>]

NextStudents ==
    \/ CallGetOrCreateStudent
    \/ CallGetUserId

SpecStudents == InitStudents /\ [][NextStudents]_vars


\* ------------------------------------------------------------------------
\* studybuddy_mcp_server.py: call_gemini, one model call at a time
\* ------------------------------------------------------------------------
\* what a model call can come to: the text of the response, or an exception
\* of the call or of response.text
ModelExceptions == {"ResourceExhausted", "ServiceUnavailable", "ValueError"}
ModelTexts == {DocA1, <<"x">>, <<>>}
Answering(t) == [status |-> "returned", exception |-> "", text |-> t]
Failing(e) == [status |-> "raised", exception |-> e, text |-> <<>>]
ModelOutcomes == {Answering(t) : t \in ModelTexts} \cup {Failing(e) : e \in ModelExceptions}

Exception(e) == [kind |-> "exception", body |-> e]

\* the handler re-raising at the first failure
ReraisesAtOnce(a, m) == a = 0

\* "if attempt == max_retries - 1: raise"
Reraises(a, m) == a = m - 1

\* for attempt in range(max_retries): the call is made
CallGeminiIssueCall ==
    /\ client = "call_gemini"
    /\ pc = "loop"
    /\ attempt < max_retries
    /\ pc' = "call"
    /\ calls' = calls + 1
    /\ in_flight' = in_flight + 1
    /\ UNCHANGED <<client, max_retries, attempt, response, response_text, result,
                   returned_by, raised, cleanVars, toolVars, concVars, trainVars, outcomes,
                   process>>

\* the call ends: "return response.text", or the except clause
CallGeminiReceive ==
    /\ client = "call_gemini"
    /\ pc = "call"
    /\ \E o \in ModelOutcomes :
          /\ outcomes' = Append(outcomes, o)
          /\ IF o.status = "returned"
             THEN /\ response_text' = o.text
                  /\ returned_by' = "return"
                  /\ pc' = "done"
                  /\ UNCHANGED <<attempt, result, raised>>
             ELSE IF Reraises(attempt, max_retries)
             THEN /\ raised' = TRUE
                  /\ result' = Exception(o.exception)
                  /\ pc' = "done"
                  /\ UNCHANGED <<attempt, response_text, returned_by>>
             ELSE /\ attempt' = attempt + 1
                  /\ pc' = "loop"
                  /\ UNCHANGED <<response_text, result, returned_by, raised>>
    /\ in_flight' = in_flight - 1
    /\ UNCHANGED <<client, max_retries, calls, response, cleanVars, toolVars, concVars,
                   trainVars, process>>

\* range(max_retries) is exhausted: return ""
CallGeminiLoopExhausted ==
    /\ client = "call_gemini"
    /\ pc = "loop"
    /\ ~(attempt < max_retries)
    /\ response_text' = <<>>
    /\ returned_by' = "after the loop"
    /\ pc' = "done"
    /\ UNCHANGED <<client, max_retries, attempt, calls, in_flight, response, result, raised,
                   cleanVars, toolVars, concVars, trainVars, outcomes, process>>

InitCallGemini ==
    /\ client = "call_gemini"
    /\ max_retries \in (0 - 1)..MaxRetries
    /\ attempt = 0
    /\ pc = "loop"
    /\ calls = 0
    /\ in_flight = 0
    /\ response = NoResponse
    /\ response_text = <<>>
    /\ result = NoValue
    /\ returned_by = ""
    /\ raised = FALSE
    /\ text = <<>>
    /\ steps = <<>>
    /\ ToolsIdle
    /\ invocations = <<>>
    /\ trainbot = NoCall
    /\ outcomes = <<>>
    /\ process = NoCall

NextCallGemini ==
    \/ CallGeminiIssueCall
    \/ CallGeminiReceive
    \/ CallGeminiLoopExhausted

SpecCallGemini == InitCallGemini /\ [][NextCallGemini]_vars


\* ------------------------------------------------------------------------
\* gemini_client.py / openai_client.py: the global client accessors
\* ------------------------------------------------------------------------
MaxAccessorCalls == 4

\* None for a global that is unset; a client is known by the number it
\* was given when it was constructed
None == 0

\* the accessor constructing a client on every call
GetClientAlwaysConstructs(global_client, key_found, fresh) ==
    IF ~key_found THEN [raised |-> TRUE, global_client |-> global_client,
                        returned |-> None, constructions |-> 1]
    ELSE [raised |-> FALSE, global_client |-> fresh, returned |-> fresh,
          constructions |-> 1]

\* get_gemini_client / get_openai_client: global_client is the global
\* before the call, key_found whether __init__ finds an API key, fresh the
\* client a construction would make
GetClient(global_client, key_found, fresh) ==
    IF global_client # None
    THEN [raised |-> FALSE, global_client |-> global_client, returned |-> global_client,
          constructions |-> 0]
    ELSE IF ~key_found
    THEN [raised |-> TRUE, global_client |-> None, returned |-> None, constructions |-> 1]
    ELSE [raised |-> FALSE, global_client |-> fresh, returned |-> fresh,
          constructions |-> 1]

\* the call of an accessor with its outcome o is added to what the process
\* did
Accessed(accessor, o) ==
    process' = [process EXCEPT
                   ![accessor] = o.global_client,
                   !.constructions = @ + o.constructions,
                   !.clients = IF o.constructions = 1 /\ ~o.raised THEN @ + 1 ELSE @,
                   !.calls = Append(@, [accessor |-> accessor, raised |-> o.raised,
                                        returned |-> o.returned,
                                        constructed |-> o.constructions = 1])]

GetGeminiClient ==
    /\ process.tool = "clients"
    /\ Len(process.calls) < MaxAccessorCalls
    /\ \E key_found \in BOOLEAN :
          Accessed("gemini_client",
                   GetClient(process.gemini_client, key_found, process.clients + 1))
    /\ UNCHANGED <<genVars, cleanVars, toolVars, concVars, trainVars, outcomes>>

GetOpenAIClient ==
    /\ process.tool = "clients"
    /\ Len(process.calls) < MaxAccessorCalls
    /\ \E key_found \in BOOLEAN :
          Accessed("openai_client",
                   GetClient(process.openai_client, key_found, process.clients + 1))
    /\ UNCHANGED <<genVars, cleanVars, toolVars, concVars, trainVars, outcomes>>

\* the modules have just been imported: both globals are None
InitClients ==
    /\ GenIdle
    /\ ToolsIdle
    /\ invocations = <<>>
    /\ trainbot = NoCall
    /\ outcomes = <<>>
    /\ process = [tool |-> "clients", gemini_client |-> None, openai_client |-> None,
                  constructions |-> 0, clients |-> 0, calls |-> <<>>]

NextClients ==
    \/ GetGeminiClient
    \/ GetOpenAIClient

SpecClients == InitClients /\ [][NextClients]_vars


\* ------------------------------------------------------------------------
\* mcp_server: call_tool and get_or_create_student invoked concurrently
\* ------------------------------------------------------------------------
\* Each invocation is a task on the event loop, or a caller of its own,
\* that runs up to its next await; every get_or_create_student opens a
\* connection of its own to the database file.
Entries == {"call_tool", "get_or_create_student"}

NewInvocation(entry, grade, board) ==
    [entry |-> entry, name |-> "Student", grade |-> grade, board |-> board,
     pc |-> IF entry = "call_tool" THEN "init_database" ELSE "connect",
     row |-> 0, rowid |-> 0, id |-> 0]

\* the task p takes its step, leaving the other tasks as they are
Stepped(p, t) == invocations' = [invocations EXCEPT !.tasks[p] = t]

\* server.py 202-214: init_database has returned; the student id is tested
\* and, when it is None, get_or_create_student is entered up to its
\* aiosqlite.connect
CallToolTestsStudentId(p) ==
    /\ invocations.tasks[p].pc = "init_database"
    /\ Stepped(p, IF student_id = 0
                  THEN [invocations.tasks[p] EXCEPT !.pc = "connect"]
                  ELSE [invocations.tasks[p] EXCEPT !.pc = "done", !.id = student_id])
    /\ UNCHANGED <<genVars, cleanVars, toolVars, trainVars, procVars>>

\* database.py 71-79: the SELECT on the connection of p and its fetchone;
\* it reads the rows committed so far
StudentSelect(p) ==
    /\ invocations.tasks[p].pc = "connect"
    /\ LET t == invocations.tasks[p]
           found == StudentRows(students, t.name, t.grade, t.board)
       IN  Stepped(p, IF found # {}
                      THEN [t EXCEPT !.pc = "close",
                                     !.row = CHOOSE i \in found : \A j \in found : i <= j,
                                     !.id = CHOOSE i \in found : \A j \in found : i <= j]
                      ELSE [t EXCEPT !.pc = "insert"])
    /\ UNCHANGED <<genVars, cleanVars, toolVars, trainVars, procVars>>

\* database.py 81-84: the INSERT; it waits while another connection has an
\* insert that is not committed, and takes the next rowid
StudentInsert(p) ==
    /\ invocations.tasks[p].pc = "insert"
    /\ \A q \in Tasks : invocations.tasks[q].pc # "commit"
    /\ Stepped(p, [invocations.tasks[p] EXCEPT !.pc = "commit", !.rowid = Len(students) + 1])
    /\ UNCHANGED <<genVars, cleanVars, toolVars, trainVars, procVars>>

\* database.py 85: commit; the row is in the table for every connection
StudentCommit(p) ==
    /\ invocations.tasks[p].pc = "commit"
    /\ students' = Append(students, [name |-> invocations.tasks[p].name,
                                     grade |-> invocations.tasks[p].grade,
                                     board |-> invocations.tasks[p].board])
    /\ Stepped(p, [invocations.tasks[p] EXCEPT !.pc = "rowid"])
    /\ UNCHANGED <<genVars, cleanVars, trainVars, procVars, program, student_id,
                   explained_topics, practice_problems, quiz_history, user_profiles,
                   learning_activities, quiz_questions, tool_calls, last>>

\* database.py 87-89: SELECT last_insert_rowid() on the connection of p
StudentLastInsertRowid(p) ==
    /\ invocations.tasks[p].pc = "rowid"
    /\ Stepped(p, [invocations.tasks[p] EXCEPT !.pc = "close",
                                                 !.id = invocations.tasks[p].rowid])
    /\ UNCHANGED <<genVars, cleanVars, toolVars, trainVars, procVars>>

\* the connection is closed and get_or_create_student returns; call_tool
\* assigns what it returned to _student_context.student_id (server.py 212)
StudentReturn(p) ==
    /\ invocations.tasks[p].pc = "close"
    /\ Stepped(p, [invocations.tasks[p] EXCEPT !.pc = "done"])
    /\ student_id' = IF invocations.tasks[p].entry = "call_tool"
                     THEN invocations.tasks[p].id ELSE student_id
    /\ UNCHANGED <<genVars, cleanVars, trainVars, procVars, program, students,
                   explained_topics, practice_problems, quiz_history, user_profiles,
                   learning_activities, quiz_questions, tool_calls, last>>

\* the server has started and no student id is set; the table is empty or
\* has the student of an earlier run
InitConcurrentStudents ==
    /\ ProcIdle
    /\ GenIdle
    /\ trainbot = NoCall
    /\ program = "none"
    /\ student_id = 0
    /\ explained_topics = <<>>
    /\ practice_problems = <<>>
    /\ quiz_history = <<>>
    /\ user_profiles = <<>>
    /\ learning_activities = <<>>
    /\ quiz_questions = <<>>
    /\ tool_calls = 0
    /\ last = NoCall
    /\ students \in {<<>>, <<[name |-> "Student", grade |-> 5, board |-> "CBSE"]>>}
    /\ \E entry \in Entries, grade \in [Tasks -> LookupGrades] :
          invocations = [tasks |-> [p \in Tasks |-> NewInvocation(entry, grade[p], "CBSE")]]

NextConcurrentStudents ==
    \/ \E p \in Tasks : CallToolTestsStudentId(p)
    \/ \E p \in Tasks : StudentSelect(p)
    \/ \E p \in Tasks : StudentInsert(p)
    \/ \E p \in Tasks : StudentCommit(p)
    \/ \E p \in Tasks : StudentLastInsertRowid(p)
    \/ \E p \in Tasks : StudentReturn(p)

SpecConcurrentStudents == InitConcurrentStudents /\ [][NextConcurrentStudents]_vars

\* ========================================================================
\* Properties
\* ========================================================================
\* the pass got as far as reading the response's text
TextRead(resp) ==
    /\ resp.status = "returned"
    /\ resp.candidates > 0
    /\ resp.finish_reason \notin {2, 3}
    /\ resp.has_text

ValueOfDocA1 == ObjVal(<< <<(<<"a">>), NumVal(<<"1">>)>> >>)
ValueOfDocHello == ObjVal(<< <<(<<"a">>), StrVal(<<"h", "e", "l", "l", "o">>)>> >>)
ValueOfDocFractions ==
    ObjVal(<< <<(<<"t", "o", "p", "i", "c">>),
                StrVal(<<"F", "r", "a", "c", "t", "i", "o", "n", "s">>)>>,
              <<(<<"k", "e", "y", "_", "p", "o", "i", "n", "t", "s">>),
                ArrVal(<<StrVal(<<"a">>), StrVal(<<"b">>)>>)>> >>)

GeminiParseMessage == StrVal(<<"Failed to parse JSON response from Gemini">>)
OpenAIParseMessage == StrVal(<<"Failed to parse JSON response from OpenAI">>)

\* C1: for max_retries >= 1 the model is called one call at a time and at
\* most max_retries times, and a response that parses strictly after
\* cleanup ends generate_content at once with that parsed payload: as many
\* calls were issued as attempts were started, and none is under way.
C1_AttemptBound ==
    (client = "gemini" /\ max_retries >= 1) =>
        /\ in_flight \in {0, 1}
        /\ calls <= max_retries
        /\ (in_flight = 1) = (pc = "call")
        /\ (TextRead(response) /\ JsonLoads(Cleanup(Strip(response.text))).ok) =>
              /\ pc = "done"
              /\ returned_by = "strict"
              /\ result = JsonLoads(Cleanup(Strip(response.text))).val
              /\ calls = attempt + 1
              /\ in_flight = 0

\* the second of three attempts parses strictly, after two calls
C1_Witness ==
    /\ client = "gemini"
    /\ max_retries = 3
    /\ attempt = 1
    /\ calls = 2
    /\ returned_by = "strict"
    /\ response.text = DocA1

\* C2: no exception leaves GeminiClient.generate_content, whatever the
\* model does and whatever max_retries is: while it has not finished a step
\* is possible, when it has finished it did so through a return statement
\* with a value, and every return other than that of a parsed payload
\* returns a mapping with an 'error' key.
C2_NeverPropagates ==
    client = "gemini" =>
        /\ raised = FALSE
        /\ (pc # "done") => ENABLED Next
        /\ (pc = "done") =>
              /\ returned_by \in {"strict", "partial", "parse_error", "no_candidates",
                                  "safety", "recitation", "api_error", "max_retries"}
              /\ result # NoValue
              /\ (returned_by \notin {"strict", "partial"}) => HasKey(result, ErrorKey)

\* the model call raises on the last of two attempts
C2_Witness ==
    /\ client = "gemini"
    /\ max_retries = 2
    /\ attempt = 1
    /\ pc = "done"
    /\ response = CallRaised
    /\ returned_by = "api_error"
    /\ HasKey(result, ErrorKey)

\* the response's text is empty once stripped
EmptyText(resp) == TextRead(resp) /\ Strip(resp.text) = <<>>

Unclosed(t) ==
    Cardinality({i \in 1..Len(t) : t[i] = "{"}) - Cardinality({i \in 1..Len(t) : t[i] = "}"})
Closed(t) ==
    t \o [i \in 1..(IF Unclosed(t) > 0 THEN 2 * Unclosed(t) ELSE 0) |->
             IF i % 2 = 1 THEN DQ ELSE "}"]

\* C4: when the strict parse fails on the final attempt, the result is the
\* parse of the cleaned text closed with (number of '{' minus number of '}')
\* copies of "} whenever that parse succeeds, and the parse-failure error
\* otherwise; on no other occasion is a repaired payload or a parse failure
\* returned, and no exception leaves the repair.
C4_ClosureRepair ==
    client = "gemini" =>
        /\ raised = FALSE
        /\ (pc = "done" /\ TextRead(response) /\ ~JsonLoads(response_text).ok) =>
              /\ attempt = max_retries - 1
              /\ IF JsonLoads(Closed(response_text)).ok
                 THEN /\ returned_by = "partial"
                      /\ result = JsonLoads(Closed(response_text)).val
                 ELSE /\ returned_by = "parse_error"
                      /\ Get(result, ErrorKey) = GeminiParseMessage
        /\ (returned_by \in {"partial", "parse_error"}) =>
              /\ pc = "done"
              /\ TextRead(response)
              /\ ~JsonLoads(response_text).ok

\* a document cut inside a string is repaired on the last of three attempts
C4_Witness ==
    /\ client = "gemini"
    /\ max_retries = 3
    /\ attempt = 2
    /\ response.text = SubSeq(DocHello, 1, Len(DocHello) - 2)
    /\ returned_by = "partial"
    /\ result = ValueOfDocHello

\* C5: the raw_response of a parse-failure result has at most 500
\* characters, however long the model's text is.
C5_TruncationBound ==
    (pc = "done" /\ returned_by = "parse_error") =>
        /\ HasKey(result, RawResponseKey)
        /\ Len(Get(result, RawResponseKey).body) <= 500

\* a text of more than 500 characters that does not parse
C5_Witness ==
    /\ pc = "done"
    /\ returned_by = "parse_error"
    /\ Len(response.text) > 500
    /\ Len(response_text) > 500
    /\ Len(Get(result, RawResponseKey).body) = 500

\* ------------------------------------------------------------------------
\* the cleanup helpers
\* ------------------------------------------------------------------------
\* the steps made so far that applied the helper op
StepsOf(op) == {k \in 1..Len(steps) : steps[k].op = op}

\* a line of t starts with the fence marker
HasFenceLine(t) ==
    \E i \in 1..Len(t) : (i = 1 \/ t[i - 1] = NL) /\ HasAt(t, i, Fence)

\* the document d between an opening fence line o and a closing fence line
Wrapped(o, d) == o \o <<NL>> \o d \o <<NL>> \o Fence

\* the comma at i is followed, ignoring whitespace, by a closing } or ]
CommaBeforeCloser(t, i) ==
    /\ t[i] = ","
    /\ \E j \in (i + 1)..Len(t) :
          /\ t[j] \in {"}", "]"}
          /\ \A k \in (i + 1)..(j - 1) : t[k] \in WS

\* the characters of t that fence stripping never deletes
NotFenceChar(c) == c \notin {BT, "j", "s", "o", "n", SP, NL}
Kept(t) == SelectSeq(t, NotFenceChar)

\* C6 as stated: a text that does not begin with a fence marker, leading
\* whitespace aside, leaves fence stripping unchanged apart from trimming,
\* and a valid document wrapped in a json-tagged or an untagged fence
\* comes out as that document.
C6_FenceOnlyAtStart ==
    \A k \in StepsOf("clean") :
        /\ ~HasAt(Strip(steps[k].arg), 1, Fence) => steps[k].ret = Strip(steps[k].arg)
        /\ \A o \in {Fence, FenceJson} : \A d \in Docs :
              steps[k].arg = Wrapped(o, d) => steps[k].ret = d

\* C6, amended: fence stripping removes every opening fence line (three
\* backticks at the start of any line, optionally tagged json, through the
\* end of that line) and every closing fence (a newline, three backticks
\* and whitespace up to the end of a line), wherever in the text they are,
\* then trims.  A text none of whose lines starts with three backticks is
\* left unchanged apart from trimming; only backticks, the letters of the
\* tag and whitespace are ever deleted; a fence after a first line of
\* prose is removed as well.  A valid document wrapped in a json-tagged or
\* an untagged fence comes out as that document, and the quote and comma
\* step followed by the strict parse then gives the value of the document
\* as the comma step leaves it, which is the document's own value when no
\* comma of it is followed (ignoring whitespace) by } or ].
\* validate_json_response accepts the json-tagged wrapping only and raises
\* on the untagged one.
C6_FenceStripping ==
    /\ \A k \in StepsOf("clean") :
          /\ ~HasFenceLine(steps[k].arg) => steps[k].ret = Strip(steps[k].arg)
          /\ Kept(steps[k].ret) = Kept(steps[k].arg)
          /\ Len(steps[k].ret) <= Len(steps[k].arg)
          /\ steps[k].arg = <<"x", NL>> \o Fence => steps[k].ret = <<"x">>
          /\ steps[k].arg = <<"x", NL>> \o Fence \o <<NL>> \o DocA1
                => steps[k].ret = <<"x", NL>> \o DocA1
          /\ \A o \in {Fence, FenceJson} : \A d \in Docs :
                steps[k].arg = Wrapped(o, d) =>
                  /\ steps[k].ret = d
                  /\ (k + 2 <= Len(steps) /\ steps[k + 1].op = "fix"
                                          /\ steps[k + 2].op = "loads") =>
                        /\ steps[k + 2].ok
                        /\ steps[k + 2].val = JsonLoads(FixJsonIssues(d)).val
                        /\ (\A i \in 1..Len(d) : ~CommaBeforeCloser(d, i))
                              => steps[k + 2].val = JsonLoads(d).val
    /\ \A k \in StepsOf("validate") : \A d \in Docs :
          /\ steps[k].arg = Wrapped(FenceJson, d) =>
                steps[k].ok /\ steps[k].val = JsonLoads(d).val
          /\ steps[k].arg = Wrapped(Fence, d) => ~steps[k].ok

\* an untagged fence around {"a":1} has been stripped, the result fixed and
\* parsed
C6_Witness ==
    /\ Len(steps) = 3
    /\ steps[1].op = "clean" /\ steps[1].arg = Wrapped(Fence, DocA1)
    /\ steps[1].ret = DocA1
    /\ steps[3].op = "loads" /\ steps[3].val = ValueOfDocA1

\* C7: after the quote step no typographic quote is left in the text: each
\* has become its ASCII equivalent, every other character short of the
\* deleted commas being kept, and {“a”: 1} goes on to parse as {"a": 1}.
C7_QuoteNormalization ==
    \A k \in StepsOf("fix") :
        /\ \A i \in 1..Len(steps[k].ret) : steps[k].ret[i] \notin {LDQ, RDQ, LSQ, RSQ}
        /\ Count(steps[k].ret, DQ) = Count(steps[k].arg, DQ) + Count(steps[k].arg, LDQ)
                                       + Count(steps[k].arg, RDQ)
        /\ (steps[k].arg = CurlyA1 /\ k < Len(steps) /\ steps[k + 1].op = "loads") =>
              steps[k + 1].ok /\ steps[k + 1].val = ValueOfDocA1

\* the text has no typographic quote, so that the quote step has nothing
\* to do on it
PlainQuotes(t) == \A i \in 1..Len(t) : t[i] \notin {LDQ, RDQ, LSQ, RSQ}

\* the comma at i is followed, ignoring whitespace, by a comma that is
\* followed, ignoring whitespace, by a closing } or ]
CommaBeforeTrailingComma(t, i) ==
    /\ t[i] = ","
    /\ \E j \in (i + 1)..Len(t) :
          /\ CommaBeforeCloser(t, j)
          /\ \A k \in (i + 1)..(j - 1) : t[k] \in WS

\* C8 as stated: trailing-comma removal deletes the commas followed,
\* ignoring whitespace, by } or ] and nothing else, and after one
\* application no comma of the text is followed (ignoring whitespace) by
\* } or ].
C8_NoTrailingCommaLeft ==
    \A k \in StepsOf("fix") :
        PlainQuotes(steps[k].arg) =>
            /\ steps[k].ret = RemoveAt(steps[k].arg,
                                  {i \in 1..Len(steps[k].arg) : CommaBeforeCloser(steps[k].arg, i)})
            /\ \A j \in 1..Len(steps[k].ret) : ~CommaBeforeCloser(steps[k].ret, j)

\* C8, amended: trailing-comma removal deletes exactly the commas that are
\* followed, ignoring whitespace, by } or ] in the text it is given, and
\* changes no other character.  One application leaves a comma followed
\* (ignoring whitespace) by } or ] exactly when the text had a comma
\* followed, ignoring whitespace, by a comma that was deleted; {"a":1,}
\* becomes {"a":1} and parses.
C8_TrailingCommaRemoval ==
    \A k \in StepsOf("fix") :
        PlainQuotes(steps[k].arg) =>
            /\ steps[k].ret = RemoveAt(steps[k].arg,
                                  {i \in 1..Len(steps[k].arg) : CommaBeforeCloser(steps[k].arg, i)})
            /\ (\E j \in 1..Len(steps[k].ret) : CommaBeforeCloser(steps[k].ret, j))
                  = (\E i \in 1..Len(steps[k].arg) : CommaBeforeTrailingComma(steps[k].arg, i))
            /\ steps[k].arg = <<",", ",", "}">> => steps[k].ret = <<",", "}">>
            /\ (steps[k].arg = TrailingA1 /\ k < Len(steps) /\ steps[k + 1].op = "loads") =>
                  /\ steps[k].ret = DocA1
                  /\ steps[k + 1].ok /\ steps[k + 1].val = ValueOfDocA1

\* {"a":1,} has lost its comma and has been parsed
C8_Witness ==
    /\ Len(steps) = 2
    /\ steps[1].op = "fix" /\ steps[1].arg = TrailingA1 /\ steps[1].ret = DocA1
    /\ steps[2].op = "loads" /\ steps[2].ok

\* the cleanup (fence stripping, then the quote and comma step) was applied
\* twice in a row, starting with step k
TwiceFrom(k) ==
    /\ k + 3 <= Len(steps)
    /\ steps[k].op = "clean" /\ steps[k + 1].op = "fix"
    /\ steps[k + 2].op = "clean" /\ steps[k + 3].op = "fix"

\* C9 as stated: for any text, the cleanup applied twice in a row gives
\* the text it gives applied once.
C9_Idempotent ==
    \A k \in 1..Len(steps) : TwiceFrom(k) => steps[k + 3].ret = steps[k + 1].ret

\* what fence stripping made of the text has no line that starts with three
\* backticks, does not begin with a comma, and has no comma followed
\* (ignoring whitespace) by another comma
Settled(c) ==
    /\ ~HasFenceLine(c)
    /\ (c # <<>> => c[1] # ",")
    /\ \A i \in 1..Len(c) : \A j \in (i + 1)..Len(c) :
          (c[i] = "," /\ c[j] = ",") => \E m \in (i + 1)..(j - 1) : c[m] \notin WS

\* C9, amended: the cleanup applied twice in a row gives the text it gives
\* applied once for every text that, after its first fence stripping, has
\* no line starting with three backticks, does not begin with a comma and
\* has no comma followed (ignoring whitespace) by another comma; the second
\* application then changes nothing at either step.  Without these
\* conditions a second application can change the text again: ,,} gives
\* ,} and then }.
C9_IdempotentWhenSettled ==
    \A k \in 1..Len(steps) :
        TwiceFrom(k) =>
            /\ Settled(steps[k].ret) =>
                  /\ steps[k + 2].ret = steps[k + 1].ret
                  /\ steps[k + 3].ret = steps[k + 1].ret
            /\ steps[k].arg = <<",", ",", "}">> =>
                  steps[k + 1].ret = <<",", "}">> /\ steps[k + 3].ret = <<"}">>

\* the cleanup went twice over a fenced document with two trailing commas:
\* the first application changed it, the second did not
C9_Witness ==
    /\ TwiceFrom(1)
    /\ steps[1].arg = Wrapped(FenceJson, TwoTrailing)
    /\ Settled(steps[1].ret)
    /\ steps[2].ret # steps[1].arg
    /\ steps[4].ret = steps[2].ret

\* C10: on every attempt of GeminiClient.generate_content that reads the
\* response's text, the text is stripped, then fence stripping, then the
\* quote step, then trailing-comma removal are applied, in this order, and
\* the strict parse is made of their result; closure repair is reached only
\* when that parse failed.  The end-to-end text (a json fence around a
\* document with a trailing comma) returns the document's value on the
\* attempt that received it, by the strict parse and without a further
\* model call; so does a text whose trailing comma is followed by a fence
\* line, which only fence stripping before comma removal can parse.
C10_CleanupOrder ==
    client = "gemini" =>
        /\ (TextRead(response) /\ pc # "call") =>
              response_text =
                  RemoveTrailingCommas(ReplaceQuotes(CleanJsonResponse(Strip(response.text))))
        /\ (returned_by = "strict") =>
              JsonLoads(response_text).ok /\ result = JsonLoads(response_text).val
        /\ (returned_by \in {"partial", "parse_error"}) => ~JsonLoads(response_text).ok
        /\ (TextRead(response) /\ response.text = EndToEnd) =>
              /\ pc = "done"
              /\ returned_by = "strict"
              /\ Len(response_text) = Len(FractionsRaw) - 1
              /\ result = ValueOfDocFractions
              /\ calls = attempt + 1
              /\ in_flight = 0
        /\ (TextRead(response) /\ response.text = CommaBeforeFence) =>
              /\ returned_by = "strict"
              /\ result = ArrVal(<<NumVal(<<"1">>)>>)
              /\ calls = attempt + 1

\* the end-to-end text on the first of three attempts: one call, strict
C10_Witness ==
    /\ client = "gemini"
    /\ max_retries = 3
    /\ attempt = 0
    /\ calls = 1
    /\ pc = "done"
    /\ response.text = EndToEnd
    /\ returned_by = "strict"
    /\ result = ValueOfDocFractions

\* ------------------------------------------------------------------------
\* The StudyBuddy tools
\* ------------------------------------------------------------------------
\* the step is a call of one of the generating tools
Generating ==
    /\ tool_calls' = tool_calls + 1
    /\ last'.tool \in ServerTools \cup AppTools \cup FastMcpTools
\* the generated payload is a mapping with a top-level "error" key
ErrorPayload(v) == v.kind = "obj" /\ HasKey(v, ErrorKey)
\* the step leaves every table of generated content as it was
NothingPersisted ==
    UNCHANGED <<explained_topics, practice_problems, quiz_history, learning_activities,
                quiz_questions>>
\* what the tool hands back shows the error
RendersError(out) == out.kind = "error line" \/ (out.kind = "obj" /\ HasKey(out, ErrorKey))

\* C11: in every variant a generation whose payload has a top-level "error"
\* key is a failed one: the call persists no explanation, practice, quiz or
\* activity row, and what it presents is the error.
C11_ErrorPayloadIsFailure ==
    [][Generating /\ ErrorPayload(last'.result)
          => NothingPersisted /\ RendersError(last'.out)]_vars

\* C11 as it stands in mcp_server/server.py and gradio_app/app_dark.py
C11_InServerAndApp ==
    [][Generating /\ program # "fastmcp" /\ ErrorPayload(last'.result)
          => NothingPersisted /\ RendersError(last'.out)]_vars
C11_ServerAndAppWitness ==
    /\ program \in {"server", "app"}
    /\ last.tool \in ServerTools \cup AppTools
    /\ ErrorPayload(last.result)
    /\ HasKey(last.result, ExplanationKey)
    /\ RendersError(last.out)
    /\ explained_topics = <<>> /\ practice_problems = <<>>

\* ------------------------------------------------------------------------
\* generate_content: the final attempt
\* ------------------------------------------------------------------------
\* the attempt worked on the text it was given, stripped and cleaned
AttemptCleaned ==
    client = "gemini" /\ pc # "call" /\ TextRead(response)
        => response_text = Cleanup(Strip(response.text))
\* the step ends a model call whose text did not parse after the cleanup
StrictParseFails ==
    /\ client = "gemini"
    /\ pc = "call" /\ pc' # "call"
    /\ TextRead(response')
    /\ ~JsonLoads(response_text').ok

\* C13: closure repair and the parse error happen on the final attempt
\* (index max_retries - 1) only. A text that fails the strict parse on an
\* earlier attempt leads to the next attempt and to no result; every attempt
\* works on the text it was given, stripped and cleaned from the start.
C13_RepairOnFinalAttemptOnly ==
    /\ []AttemptCleaned
    /\ [][/\ returned_by' \in {"partial", "parse_error"} => attempt' = max_retries - 1
          /\ StrictParseFails /\ attempt < max_retries - 1
               => /\ pc' = "loop" /\ attempt' = attempt + 1
                  /\ result' = NoValue /\ returned_by' = "" /\ ~raised'
          /\ StrictParseFails /\ ~(attempt < max_retries - 1)
               => returned_by' \in {"partial", "parse_error"}]_vars
C13_Witness ==
    /\ client = "gemini"
    /\ attempt = 2 /\ max_retries = 3
    /\ returned_by = "partial"
    /\ TextRead(response)
    /\ ~JsonLoads(response_text).ok
    /\ calls = 3

\* C14: the parse-failure result carries the parser's message and, as its
\* raw_response, the first 500 characters of the text the model returned on
\* that attempt: a prefix of the raw model output.
C14_SnippetIsRawPrefix ==
    (client = "gemini" /\ pc = "done" /\ returned_by = "parse_error") =>
        /\ Get(result, DetailsKey) = StrVal(ErrorText(response_text, JsonLoads(response_text)))
        /\ Get(result, RawResponseKey) = StrVal(Take(response.text, RawResponseLimit))

\* what generate_content does return as raw_response: the first 500
\* characters of the text after strip, fence removal and the fixes
C14_SnippetOfCleanedText ==
    (client = "gemini" /\ pc = "done" /\ returned_by = "parse_error") =>
        /\ Get(result, DetailsKey) = StrVal(ErrorText(response_text, JsonLoads(response_text)))
        /\ Get(result, RawResponseKey) =
              StrVal(Take(Cleanup(Strip(response.text)), RawResponseLimit))
C14_CleanedSnippetWitness ==
    /\ client = "gemini" /\ pc = "done" /\ returned_by = "parse_error"
    /\ Get(result, RawResponseKey) # StrVal(Take(response.text, RawResponseLimit))

\* ------------------------------------------------------------------------
\* Concurrent calls
\* ------------------------------------------------------------------------
\* what generate_content returns when it runs alone and is given the
\* responses resps one after another, from attempt a on; a "continue" when
\* the responses run out before it returns
RECURSIVE RunAlone(_, _, _)
RunAloneFrom(resps, a, m, o) == IF o.ctl = "continue" THEN RunAlone(resps, a + 1, m) ELSE o
RunAlone(resps, a, m) ==
    IF ~(a < m) THEN Return(ErrMaxRetries, "max_retries", <<>>)
    ELSE IF a + 1 > Len(resps) THEN Continue(<<>>)
    ELSE RunAloneFrom(resps, a, m, GeminiExcept(GeminiTryBody(resps[a + 1], a, m), a, m))

Returned(p) == invocations.tasks[p].pc = "done"

NormalizedProvider == Strip(Lower(trainbot.ai_provider))

ProviderFor(n) ==
    IF n = <<"o","p","e","n","a","i">> THEN "openai"
    ELSE IF n = <<"a","n","t","h","r","o","p","i","c">> \/ n = <<"c","l","a","u","d","e">> THEN "anthropic"
    ELSE IF n = <<"g","e","m","i","n","i">> \/ n = <<"g","o","o","g","l","e">> THEN "gemini"
    ELSE "none"

C15_DispatchOnNormalizedName ==
    (trainbot.tool # "none" /\ trainbot.generate_content_calls = 1) =>
        /\ trainbot.provider = ProviderFor(NormalizedProvider)
        /\ trainbot.provider # "none" =>
              /\ trainbot.provider_calls = 1
              /\ trainbot.out \in ProviderReplies
        /\ trainbot.provider = "none" =>
              /\ trainbot.provider_calls = 0
              /\ trainbot.out = "Unsupported provider"
              /\ trainbot.unsupported = NormalizedProvider

\* a name with surrounding white space was dispatched to OpenAI
C15_Witness ==
    /\ trainbot.tool = "generate_content"
    /\ trainbot.ai_provider = <<" ","o","p","e","n","a","i","\n">>
    /\ trainbot.provider = "openai"
    /\ trainbot.provider_calls = 1

\* an unknown name reached no provider
C15_UnsupportedWitness ==
    /\ trainbot.tool = "generate_content"
    /\ trainbot.ai_provider = <<"g","p","t">>
    /\ trainbot.out = "Unsupported provider"
    /\ trainbot.provider_calls = 0

\* ------------------------------------------------------------------------
\* C16: each TrainBot tool validates its inputs before any generation: a
\* count outside the documented range (flashcards 1-50, course modules
\* 1-15, quiz questions 1-30, practice problems 1-20) or a
\* level/difficulty/depth outside its documented set returns an
\* "Error: ..." string and no provider is called; every in-range input
\* reaches generate_content exactly once.
\* ------------------------------------------------------------------------
ValidatingTools == {"generate_flashcards", "generate_course", "create_quiz",
                    "explain_topic", "create_practice_problems"}

DocumentedMost(tool) ==
    IF tool = "generate_flashcards" THEN 50
    ELSE IF tool = "generate_course" THEN 15
    ELSE IF tool = "create_quiz" THEN 30
    ELSE 20

DocumentedSet(tool) ==
    IF tool \in {"generate_flashcards", "generate_course"} THEN Levels
    ELSE IF tool = "create_quiz" THEN QuizDifficulties
    ELSE IF tool = "explain_topic" THEN Depths
    ELSE PracticeDifficulties

ErrorStrings ==
    {"Error: count must be between 1 and 50",
     "Error: modules must be between 1 and 15",
     "Error: questions must be between 1 and 30",
     "Error: count must be between 1 and 20",
     "Error: level must be 'beginner', 'intermediate', or 'advanced'",
     "Error: difficulty must be 'easy', 'medium', 'hard', or 'mixed'",
     "Error: depth must be 'brief', 'comprehensive', or 'detailed'",
     "Error: difficulty must be 'easy', 'medium', 'hard', or 'progressive'"}

CountInRange ==
    \/ trainbot.tool = "explain_topic"
    \/ trainbot.count \in 1..DocumentedMost(trainbot.tool)

ReturnedError ==
    /\ trainbot.out \in ErrorStrings
    /\ trainbot.generate_content_calls = 0
    /\ trainbot.provider_calls = 0

C16_CapitalsWitness ==
    /\ trainbot.tool = "generate_flashcards"
    /\ trainbot.count = 50
    /\ trainbot.level = <<"I","n","t","e","r","m","e","d","i","a","t","e">>
    /\ trainbot.generate_content_calls = 1

\* ------------------------------------------------------------------------
\* C17: each studybuddy_* FastMCP tool rejects an empty topic/problem or
\* subject, a grade outside 5-10, a board outside {CBSE, ICSE, IGCSE} and
\* (for practice) num_questions outside 1-10 by returning a JSON object
\* with an "error" key, without calling the model and without writing any
\* row to the database.
\* ------------------------------------------------------------------------
Boards == {"CBSE", "ICSE", "IGCSE"}

\* the arguments the claim says are rejected
OutOfRange(name, args) ==
    \/ args.topic = ""
    \/ args.subject = ""
    \/ args.grade \notin 5..10
    \/ name \in BoardTools /\ args.board \notin Boards
    \/ name = "studybuddy_generate_practice" /\ args.num_questions \notin 1..10

C17_InvalidInputRejected ==
    [][(program = "fastmcp" /\ last'.tool \in FastMcpTools
          /\ OutOfRange(last'.tool, last'.args))
          => /\ last'.out.kind = "obj"
             /\ In(last'.out, ErrorKey)
             /\ last'.model_calls = 0
             /\ user_profiles' = user_profiles
             /\ learning_activities' = learning_activities
             /\ quiz_questions' = quiz_questions]_vars

\* after a served call, a practice request for 11 questions was refused
C17_Witness ==
    /\ program = "fastmcp"
    /\ tool_calls = 2
    /\ last.tool = "studybuddy_generate_practice"
    /\ last.args.num_questions = 11
    /\ last.args.topic # "" /\ last.args.grade = 5 /\ last.args.board = "CBSE"
    /\ In(last.out, ErrorKey)
    /\ last.model_calls = 0
    /\ Len(learning_activities) = 1

\* ------------------------------------------------------------------------
\* C19: when more questions have been recorded for a student and topic
\* than the prompt's limit, the quiz prompt lists the most recently asked
\* ones: the last 30 asked in the FastMCP server and the last 20 asked in
\* the mcp_server prompts.
\* ------------------------------------------------------------------------
Elements(s) == {s[i] : i \in 1..Len(s)}

\* a quiz request got as far as its prompt
QuizPrompted(call) ==
    /\ call.tool = "studybuddy_quiz_me"
    /\ call.model_calls > 0

\* the question texts recorded for the student and topic, in the order in
\* which they were asked (the order in which the rows were inserted)
AskedInFastMcp(uid, topic) == QuestionTextOf(QuizQuestionRows(quiz_questions, uid, topic))
AskedInServer(sid, subject, topic) == GetQuizHistory(quiz_history, sid, subject, topic)

ListsLastAsked(listed, asked, limit) ==
    Len(asked) > limit =>
        /\ Len(listed) = limit
        /\ Elements(listed) = Elements(LastN(asked, limit))

C19_InMcpServer ==
    [][(program = "server" /\ QuizPrompted(last'))
          => ListsLastAsked(last'.listed,
                            AskedInServer(student_id', last'.args.subject, last'.args.topic),
                            20)]_vars

C19_PromptListsMostRecent ==
    [][/\ (program = "fastmcp" /\ QuizPrompted(last'))
          => ListsLastAsked(last'.listed,
                            AskedInFastMcp(last'.user_id, last'.args.topic), 30)
       /\ (program = "server" /\ QuizPrompted(last'))
          => ListsLastAsked(last'.listed,
                            AskedInServer(student_id', last'.args.subject, last'.args.topic),
                            20)]_vars

\* mcp_server: of 30 recorded questions the prompt listed the 11th to 30th
C19_McpServerWitness ==
    /\ program = "server"
    /\ QuizPrompted(last)
    /\ Len(last.previous) = 30
    /\ last.listed = SubSeq(last.previous, 11, 30)
    /\ last.listed[20] = StrVal(Dec(30))

\* FastMCP: of 60 recorded questions, asked in six quizzes, the prompt
\* listed those of the second, third and fourth quiz
C19_FastMcpListsOlderQuestions ==
    /\ program = "fastmcp"
    /\ QuizPrompted(last)
    /\ tool_calls = 1
    /\ Len(last.previous) = 50
    /\ Elements(last.listed) = {StrVal(Dec(n)) : n \in 11..40}

\* ------------------------------------------------------------------------
\* C18: quiz tracking: after a quiz is generated successfully for a
\* student and topic, every question text of that quiz is recorded, and
\* the next quiz request for the same student and topic passes the
\* recorded question texts to the prompt as the list of questions not to
\* repeat.
\* ------------------------------------------------------------------------
\* the tool returned a quiz: no "error" key, and questions that each have
\* a text
QuizGenerated(call) ==
    /\ call.tool = "studybuddy_quiz_me"
    /\ call.exc = ""
    /\ call.out.kind = "obj"
    /\ ~In(call.out, ErrorKey)
    /\ In(call.result, QuestionsKey)
    /\ HasQuestionTexts(Get(call.result, QuestionsKey))
    /\ Get(call.result, QuestionsKey).body # <<>>
    /\ \A i \in 1..Len(Get(call.result, QuestionsKey).body) :
          Get(Get(call.result, QuestionsKey).body[i], QuestionKey).kind = "str"
QuizTexts(call) == QuestionTexts(Get(call.result, QuestionsKey))

SameStudent(call, next) == program = "fastmcp" => call.user_id = next.user_id

\* every question text of the quiz just generated is in the database
C18_QuestionsRecorded ==
    (program \in {"server", "fastmcp"} /\ QuizGenerated(last)) =>
        IF program = "server"
        THEN /\ quiz_history # <<>>
             /\ quiz_history[Len(quiz_history)] =
                   [student_id |-> student_id, subject |-> last.args.subject,
                    topic |-> last.args.topic,
                    questions |-> Get(last.result, QuestionsKey), score |-> 0]
        ELSE /\ Len(quiz_questions) >= Len(QuizTexts(last))
             /\ QuestionTextOf(LastN(QuizQuestionRows(quiz_questions, last.user_id,
                                                      last.args.topic),
                                     Len(QuizTexts(last)))) = QuizTexts(last)

\* the next quiz request hands them to get_quiz_prompt as
\* previous_questions; mcp_server looks them up by subject as well
C18_HandedToGetQuizPrompt ==
    [][(program \in {"server", "fastmcp"} /\ QuizGenerated(last) /\ QuizPrompted(last')
          /\ SameStudent(last, last') /\ last'.args.topic = last.args.topic
          /\ (program = "server" => last'.args.subject = last.args.subject))
          => Elements(QuizTexts(last)) \subseteq Elements(last'.previous)]_vars

\* the claim: the prompt of the next request lists them (a topic of
\* mcp_server being a topic of a subject)
C18_NextPromptListsThem ==
    [][(program \in {"server", "fastmcp"} /\ QuizGenerated(last) /\ QuizPrompted(last')
          /\ SameStudent(last, last') /\ last'.args.topic = last.args.topic
          /\ (program = "server" => last'.args.subject = last.args.subject))
          => Elements(QuizTexts(last)) \subseteq Elements(last'.listed)]_vars

\* the claim where the prompt lists every recorded question: mcp_server
\* with the subject unchanged, FastMCP with at most 30 questions recorded
C18_WithinTheLimit ==
    [][(/\ QuizGenerated(last) /\ QuizPrompted(last')
        /\ SameStudent(last, last') /\ last'.args.topic = last.args.topic
        /\ \/ program = "server" /\ last'.args.subject = last.args.subject
           \/ program = "fastmcp" /\ Len(last'.previous) <= 30)
          => Elements(QuizTexts(last)) \subseteq Elements(last'.listed)]_vars

\* mcp_server: the second quiz on the topic was asked not to repeat the
\* two questions of the first
C18_Witness ==
    /\ program = "server"
    /\ tool_calls = 2
    /\ QuizPrompted(last)
    /\ Len(quiz_history) >= 4
    /\ LastN(last.listed, 2) = <<StrVal(Dec(91)), StrVal(Dec(92))>>

\* FastMCP: the quiz just asked is not in the next prompt
C18_FastMcpOmitsLastQuiz ==
    /\ program = "fastmcp"
    /\ tool_calls = 2
    /\ QuizPrompted(last)
    /\ Len(last.previous) = 50
    /\ last.previous[1] \in {StrVal(Dec(91)), StrVal(Dec(92))}
    /\ StrVal(Dec(91)) \notin Elements(last.listed)
    /\ StrVal(Dec(92)) \notin Elements(last.listed)

\* ------------------------------------------------------------------------
\* C20: get-or-create of a student/user is idempotent under sequential
\* calls: for any sequence of calls to get_user_id (or
\* get_or_create_student), calls with the same (name, grade, board) return
\* the same id, calls with different triples return different ids, and the
\* table holds exactly one row per distinct triple seen.
\* ------------------------------------------------------------------------
Triple(r) == [name |-> r.name, grade |-> r.grade, board |-> r.board]
TriplesSeen == {Triple(last.lookups[i]) : i \in 1..Len(last.lookups)}
StudentTable == IF program = "server" THEN students ELSE user_profiles

C20_GetOrCreateIdempotent ==
    /\ \A i, j \in 1..Len(last.lookups) :
          (Triple(last.lookups[i]) = Triple(last.lookups[j]))
             <=> (last.lookups[i].id = last.lookups[j].id)
    /\ Len(StudentTable) = Cardinality(TriplesSeen)
    /\ \A t \in TriplesSeen :
          Cardinality({k \in 1..Len(StudentTable) : StudentTable[k] = t}) = 1
    /\ \A i \in 1..Len(last.lookups) :
          StudentTable[last.lookups[i].id] = Triple(last.lookups[i])

\* a student was looked up, then another, then the first again and a
\* third: ids 1, 2, 1, 3 and three rows
C20_Witness ==
    /\ program = "fastmcp"
    /\ Len(last.lookups) = 4
    /\ Triple(last.lookups[1]) = Triple(last.lookups[3])
    /\ Triple(last.lookups[1]) # Triple(last.lookups[2])
    /\ <<last.lookups[1].id, last.lookups[2].id, last.lookups[3].id, last.lookups[4].id>>
          = <<1, 2, 1, 3>>
    /\ Len(user_profiles) = 3

\* the same with get_or_create_student
C20_ServerWitness ==
    /\ program = "server"
    /\ Len(last.lookups) = 4
    /\ <<last.lookups[1].id, last.lookups[2].id, last.lookups[3].id, last.lookups[4].id>>
          = <<1, 2, 1, 3>>
    /\ Len(students) = 3
    /\ student_id = 3

\* ------------------------------------------------------------------------
\* C21: call_gemini (FastMCP server) calls the model at most max_retries
\* times, returns the text of the first call that succeeds without making
\* further calls, and when all max_retries calls fail re-raises the
\* exception of the last call.
\* ------------------------------------------------------------------------
AllFailed(n) == \A k \in 1..n : outcomes[k].status = "raised"

CallGeminiDone ==
    /\ in_flight = 0
    /\ returned_by = "return" <=> (outcomes # <<>> /\ ~AllFailed(Len(outcomes)))
    /\ returned_by = "return" => response_text = outcomes[Len(outcomes)].text
    /\ raised <=> (max_retries > 0 /\ Len(outcomes) = max_retries /\ AllFailed(max_retries))
    /\ raised => result = Exception(outcomes[max_retries].exception)
    /\ returned_by = "after the loop" <=> max_retries <= 0
    /\ returned_by = "after the loop" => (calls = 0 /\ response_text = <<>>)

C21_CallGeminiRetries ==
    /\ [](/\ calls <= IF max_retries > 0 THEN max_retries ELSE 0
          /\ Len(outcomes) + in_flight = calls
          /\ AllFailed(Len(outcomes) - 1)
          /\ (pc # "done" /\ outcomes # <<>>) => AllFailed(Len(outcomes))
          /\ pc = "done" => CallGeminiDone)
    /\ [][pc = "done" => UNCHANGED vars]_vars

\* the third call answered after two failures
C21_Witness ==
    /\ client = "call_gemini"
    /\ pc = "done"
    /\ max_retries = 3
    /\ calls = 3
    /\ returned_by = "return"
    /\ response_text = DocA1
    /\ outcomes[1].status = "raised" /\ outcomes[2].status = "raised"

\* three calls failed and the exception of the third left call_gemini
C21_ReraiseWitness ==
    /\ client = "call_gemini"
    /\ pc = "done"
    /\ max_retries = 3
    /\ raised
    /\ outcomes[1].exception = "ResourceExhausted"
    /\ outcomes[3].exception = "ValueError"
    /\ result = Exception("ValueError")

\* the tools' model of call_gemini agrees with its steps
C21_CallGeminiAsTheToolsSeeIt ==
    (client = "call_gemini" /\ pc = "done" /\ max_retries > 0) =>
        LET failures == Cardinality({k \in 1..Len(outcomes) : outcomes[k].status = "raised"})
            g == CallGemini(failures, response_text, max_retries)
        IN  /\ g.raised = raised
            /\ g.calls = calls
            /\ ~raised => g.text = response_text

\* ------------------------------------------------------------------------
\* C22: in GeminiClient.generate_content an exception from the model call
\* on a non-final attempt leads to the next attempt, and on the final
\* attempt yields the "Gemini API error" result; the kind of failure
\* returned is decided by the final attempt alone. With max_retries >= 1
\* every path returns from inside the loop, so the "Max retries exceeded"
\* result is returned only when max_retries <= 0, and then without any
\* model call.
\* ------------------------------------------------------------------------
\* the response of the attempt that returned accounts for the kind returned
KindOfLastAttempt ==
    /\ returned_by = "api_error" =>
          /\ response.status = "raised" \/ ~response.has_text
          /\ attempt = max_retries - 1
          /\ \E e \in {"model call failed", "response has no text"} : result = ErrGeminiApi(e)
    /\ returned_by \in {"partial", "parse_error"} =>
          /\ response.status = "returned" /\ response.has_text
          /\ attempt = max_retries - 1
    /\ returned_by = "strict" => (response.status = "returned" /\ response.has_text)
    /\ returned_by = "no_candidates" => (response.status = "returned" /\ response.candidates = 0)
    /\ returned_by = "safety" => (response.status = "returned" /\ response.finish_reason = 2)
    /\ returned_by = "recitation" => (response.status = "returned" /\ response.finish_reason = 3)

MaxRetriesExceeded ==
    /\ (pc = "done" /\ max_retries >= 1) =>
          (returned_by \notin {"", "max_retries"} /\ ~raised /\ calls = attempt + 1)
    /\ (pc = "done" /\ max_retries <= 0) => returned_by = "max_retries"
    /\ returned_by = "max_retries" =>
          (max_retries <= 0 /\ calls = 0 /\ result = ErrMaxRetries)
    /\ result = ErrMaxRetries => returned_by = "max_retries"

C22_ExceptionRetriesUntilFinalAttempt ==
    /\ [](client = "gemini" => (KindOfLastAttempt /\ MaxRetriesExceeded))
    /\ [][(client = "gemini" /\ pc = "call" /\ response'.status = "raised") =>
             IF attempt < max_retries - 1
             THEN /\ pc' = "loop" /\ attempt' = attempt + 1
                  /\ returned_by' = "" /\ result' = NoValue /\ ~raised'
             ELSE /\ pc' = "done" /\ returned_by' = "api_error"
                  /\ result' = ErrGeminiApi("model call failed") /\ ~raised']_vars

\* two calls raised, the third was answered with text that does not parse:
\* the parse failure is returned
C22_Witness ==
    /\ client = "gemini"
    /\ pc = "done"
    /\ max_retries = 3
    /\ calls = 3
    /\ response.status = "returned"
    /\ returned_by = "parse_error"

\* the call of the final attempt raised
C22_ApiErrorWitness ==
    /\ client = "gemini"
    /\ pc = "done"
    /\ max_retries = 3
    /\ calls = 3
    /\ response.status = "raised"
    /\ result = ErrGeminiApi("model call failed")

\* max_retries = 0
C22_MaxRetriesWitness ==
    /\ client = "gemini"
    /\ pc = "done"
    /\ max_retries = 0
    /\ result = ErrMaxRetries
    /\ calls = 0

\* ------------------------------------------------------------------------
\* C23: when a model response has no candidates, or its first candidate's
\* finish reason is SAFETY (2) or RECITATION (3), generate_content returns
\* the corresponding blocked-content error on that attempt, whatever the
\* attempt index, without parsing the response and without issuing any
\* further model call.
\* ------------------------------------------------------------------------
Blocked(resp) ==
    /\ resp.status = "returned"
    /\ resp.candidates = 0 \/ resp.finish_reason \in {2, 3}

BlockedError(resp) ==
    IF resp.candidates = 0 THEN ErrNoCandidates
    ELSE IF resp.finish_reason = 2 THEN ErrSafety
    ELSE ErrRecitation

C23_BlockedResponseReturnsAtOnce ==
    /\ [][(client = "gemini" /\ pc = "call" /\ Blocked(response')) =>
             /\ pc' = "done"
             /\ result' = BlockedError(response')
             /\ returned_by' \in {"no_candidates", "safety", "recitation"}
             /\ attempt' = attempt
             /\ calls' = calls
             /\ response_text' = <<>>
             /\ ~raised']_vars
    /\ [][pc = "done" => UNCHANGED vars]_vars

\* the first response of three possible attempts was blocked for safety,
\* although it carried text that parses
C23_Witness ==
    /\ client = "gemini"
    /\ pc = "done"
    /\ max_retries = 3
    /\ attempt = 0
    /\ calls = 1
    /\ response = Response("returned", 1, 2, TRUE, DocA1)
    /\ result = ErrSafety

\* the third response had no candidates
C23_LastAttemptWitness ==
    /\ client = "gemini"
    /\ pc = "done"
    /\ max_retries = 3
    /\ attempt = 2
    /\ calls = 3
    /\ response.candidates = 0
    /\ result = ErrNoCandidates

\* ------------------------------------------------------------------------
\* C24: in the FastMCP StudyBuddy tools, a learning_activities row (and,
\* for quizzes, quiz_questions rows) is written only after the model call
\* succeeded and its response parsed as JSON; when the model call fails
\* after all retries or the response is not valid JSON, the tool returns a
\* JSON object with an "error" key and writes no activity or quiz-question
\* row.
\* ------------------------------------------------------------------------
FastMcpCall == program = "fastmcp" /\ tool_calls' = tool_calls + 1

\* call_gemini raised after its last retry, or validate_json_response
\* raised
GenerationFailed(call) ==
    \/ call.exc = "model call failed" /\ call.model_calls = DefaultMaxRetries
    \/ call.exc = "Invalid JSON response from AI" /\ call.model_calls >= 1

RowsWritten ==
    \/ learning_activities' # learning_activities
    \/ quiz_questions' # quiz_questions

C24_RowsOnlyAfterParsedResponse ==
    [][FastMcpCall =>
          /\ RowsWritten =>
                /\ last'.model_calls >= 1
                /\ last'.exc = ""
                /\ last'.result # NoValue
                /\ last'.out = last'.result
          /\ quiz_questions' # quiz_questions => last'.tool = "studybuddy_quiz_me"
          /\ GenerationFailed(last') =>
                /\ last'.out.kind = "obj"
                /\ HasKey(last'.out, ErrorKey)
                /\ ~RowsWritten]_vars

\* the response of the first call did not parse: an error, the user's
\* profile, and no activity
C24_Witness ==
    /\ program = "fastmcp"
    /\ tool_calls = 1
    /\ last.tool = "studybuddy_quiz_me"
    /\ last.exc = "Invalid JSON response from AI"
    /\ HasKey(last.out, ErrorKey)
    /\ Len(user_profiles) = 1
    /\ learning_activities = <<>>
    /\ quiz_questions = <<>>

\* three model calls failed
C24_ModelFailedWitness ==
    /\ program = "fastmcp"
    /\ tool_calls = 2
    /\ last.tool \in FastMcpTools
    /\ last.exc = "model call failed"
    /\ last.model_calls = 3
    /\ HasKey(last.out, ErrorKey)
    /\ Len(learning_activities) = 1

\* ------------------------------------------------------------------------
\* C25: the global client accessors construct at most one client per
\* process: after the first successful construction every call to
\* get_gemini_client (get_openai_client) returns that same instance; when
\* construction raises (API key missing) the global stays unset, the error
\* propagates, and a later call tries construction again.
\* ------------------------------------------------------------------------
Accessors == {"gemini_client", "openai_client"}
CallsOf(a) == SelectSeq(process.calls, LAMBDA c : c.accessor = a)
Constructed(a) == {i \in 1..Len(CallsOf(a)) : CallsOf(a)[i].constructed /\ ~CallsOf(a)[i].raised}

SameArguments ==
    \A p, q \in Tasks :
       /\ invocations.tasks[p].name = invocations.tasks[q].name
       /\ invocations.tasks[p].grade = invocations.tasks[q].grade
       /\ invocations.tasks[p].board = invocations.tasks[q].board
\* the rows added to students since the invocations began
RowsCreated == {i \in 1..Len(students) : \E p \in Tasks : invocations.tasks[p].rowid = i}
AllDone == \A p \in Tasks : invocations.tasks[p].pc = "done"

C26_ConcurrentInvocationsShareOneRow ==
    SameArguments =>
       /\ Cardinality(RowsCreated) <= 1
       /\ AllDone => \A p, q \in Tasks : invocations.tasks[p].id = invocations.tasks[q].id

\* both invocations found no row, both inserted, and each has its own id
C26_TwoRowsForOneStudent ==
    /\ SameArguments
    /\ AllDone
    /\ Len(students) = 2
    /\ students[1] = students[2]
    /\ invocations.tasks[1].id # invocations.tasks[2].id
    /\ invocations.tasks[1].entry = "call_tool"

\* ------------------------------------------------------------------------
\* C27: cleanup preserves valid documents: whenever the model's text (after
\* trimming) is already strictly valid JSON, generate_content returns
\* exactly the value obtained by parsing that text directly, i.e. fence
\* stripping, quote normalization and trailing-comma removal never alter
\* the content of a document that was valid to begin with.
\* ------------------------------------------------------------------------
\* the attempt just made read a text that, stripped, is valid JSON
ValidTextReceived ==
    /\ client = "gemini"
    /\ pc # "call"
    /\ TextRead(response)
    /\ JsonLoads(Strip(response.text)).ok

C27_CleanupPreservesValidDocuments ==
    ValidTextReceived =>
        /\ pc = "done"
        /\ ~raised
        /\ result = JsonLoads(Strip(response.text)).val

\* a valid document that the cleanup leaves as it is comes back as parsed
C27_UntouchedDocumentsPreserved ==
    (ValidTextReceived /\ Cleanup(Strip(response.text)) = Strip(response.text)) =>
        /\ pc = "done"
        /\ returned_by = "strict"
        /\ ~raised
        /\ result = JsonLoads(Strip(response.text)).val

\* the document {"a":",}"} came back as {"a":"}"}: the comma inside the
\* string value was removed
C27_CommaInStringLost ==
    /\ ValidTextReceived
    /\ response.text = DocCommaInString
    /\ pc = "done"
    /\ returned_by = "strict"
    /\ result = ObjVal(<< <<(<<"a">>), StrVal(<<"}">>)>> >>)
    /\ JsonLoads(DocCommaInString).val = ObjVal(<< <<(<<"a">>), StrVal(<<",", "}">>)>> >>)

\* a valid document other than that one came back as parsed
C27_ValidDocumentWitness ==
    /\ ValidTextReceived
    /\ response.text = DocHello
    /\ returned_by = "strict"
    /\ result = ValueOfDocHello
====
